---------------------------- MODULE Spec2Model ----------------------------
(***************************************************************************)
(* A model of LocustDB's table store (mem_store/table.rs), coordinator and *)
(* task scheduler (scheduler/inner_locustdb.rs) and query normalisation    *)
(* (engine/planning/query.rs).                                             *)
(*                                                                         *)
(* The specifications share the module's variables:                        *)
(*   Spec       the coordinator and its tables: ingest, seal, store,       *)
(*              snapshot                                                   *)
(*   SpecSched  the worker pool: schedule, await_task, worker_loop, stop   *)
(*   SpecStop   the worker pool with the tasks handed out after stop       *)
(*              counted                                                    *)
(*   SpecNorm   Query::normalize applied to bounded queries                *)
(*   SpecMem    table memory and the memory enforcer                       *)
(*   SpecAgg, SpecRun, SpecSort  NormalFormQuery::run_aggregate and run    *)
(*   SpecParse  syntax/parser.rs: parse_query                              *)
(*   SpecReify  locustdb-derive: the reify_types! macro and its output     *)
(*   SpecConv   TypeConversionOperator::execute                            *)
(***************************************************************************)
EXTENDS Integers, Sequences, FiniteSets, TLC

(***************************************************************************)
(* Bounds of the model.                                                    *)
(***************************************************************************)
\* client threads calling into the coordinator
NumThreads == 2
\* top-level calls into the coordinator over one run
MaxCalls == 4
\* rows handed to the coordinator by clients over one run
MaxRows == 4
\* rows one ingest_homogeneous / ingest_heterogeneous call may carry
MaxColLen == 2
\* batch size of an ordinary table (the code passes 1 << 20)
BatchSize == 2
\* largest partition id the disk store holds at startup
MaxDiskId == 2
\* worker threads (opts.threads)
NumWorkers == 2
\* schedule() calls over one run
MaxTasks == 2
\* units of work a multithreaded task may hold
MaxChunks == 1

\* client operations on the tables over one run of the memory model
MaxMemOps == 3
\* largest column a client stores, in bytes
MaxColBytes == 1
\* largest mem_size_limit_tables, in bytes
MaxMemLimit == 1
\* largest partition id the disk store holds at startup in the memory model
MaxMemDiskId == 1

\* group-by columns of an aggregate query
MaxGroupBy == 3
\* aggregates of an aggregate query
MaxAggregates == 2
\* ORDER BY keys of a query
MaxOrderBy == 2
\* largest limit of a query, u64::MAX apart
MaxLimit == 2
\* largest partition_len handed to run
MaxPartitionLen == 4
\* rows of the partition whose sort is executed
PartitionRows == 3

\* expression nodes in the select list and the ORDER BY of a query
MaxQueryNodes == 4
MaxProjection == 2

\* productions of one reify_types! invocation
MaxProductions == 2
\* declarations of one production
MaxDeclarations == 2

\* elements of one chunk handed to a TypeConversionOperator
MaxChunkLen == 2
\* execute calls on one TypeConversionOperator
MaxConvCalls == 2

\* u64::MAX, as the limit of a primary query and as the id of the transient
\* partition; no other limit or partition id of the model reaches it
U64Max == -1
\* usize arithmetic is modulo this (scaled down from 2^64; no sum of the
\* model comes near it)
UsizeModulus == 65536
\* largest grouping key run_aggregate groups without a hash map, plus one
GroupingKeyLimit == 65536
\* batch size of _meta_tables
MetaTablesBatch == 1
\* batch size of _meta_queries
MetaQueriesBatch == 10
\* id of the transient partition built from the ingest buffer
TransientId == U64Max

Threads == 1..NumThreads
NoThread == 0
MetaTables == "_meta_tables"
UserTables == {"t"}
TableNames == UserTables \cup {MetaTables}

VARIABLES
    \* InnerLocustDB
    started,            \* InnerLocustDB::new has run
    disk,               \* the disk store's partition metadata
    tables,             \* names registered in InnerLocustDB.tables
    next_partition_id,  \* InnerLocustDB.next_partition_id
    \* Table, per table name
    partitions,         \* Table.partitions: set of [id, kind, rows]
    buffer,             \* Table.buffer: sequence of rows
    bufOwner,           \* holder of the Table.buffer mutex
    partReaders,        \* holders of the Table.partitions read lock
    \* client threads
    pc,                 \* position of each thread
    stack,              \* call frames of each thread, innermost first
    nextRow,            \* next fresh row id
    calls,              \* top-level calls made so far
    \* observations
    ingested,           \* per table object: ids of rows whose ingest returned
    onlyIngest,         \* per table object: filled through ingest alone
    created,            \* names create_if_empty has inserted a Table for
    ret                 \* per thread: what its last top-level call returned

storeVars == <<started, disk, tables, next_partition_id, partitions, buffer,
               bufOwner, partReaders, pc, stack, nextRow, calls, ingested,
               onlyIngest, created, ret>>

VARIABLES
    \* InnerLocustDB: the task scheduler
    running,            \* InnerLocustDB.running
    task_queue,         \* InnerLocustDB.task_queue: task ids, front first
    queueOwner,         \* holder of the task_queue mutex
    idle_queue,         \* workers blocked in idle_queue.wait
    wpc,                \* position of each worker thread
    cur,                \* the task await_task returned to each worker
    \* tasks
    multithreaded,      \* Task::multithreaded of each scheduled task
    chunks,             \* units of work each task has left
    completed,          \* Task::completed of each task
    scheduled,          \* number of schedule() calls so far
    \* observations
    handed,             \* how often await_task returned each task
    executed,           \* how often execute() ran on each task
    dropped,            \* drop_pending_tasks has been called
    late                \* how often await_task returned a task to each worker
                        \* since stop stored running (counted in SpecStop,
                        \* <<>> elsewhere)

schedVars == <<running, task_queue, queueOwner, idle_queue, wpc, cur,
               multithreaded, chunks, completed, scheduled, handed, executed,
               dropped, late>>

VARIABLES
    \* Query::normalize
    query,              \* the Query normalize is called on
    normalized,         \* normalize has returned
    result              \* what normalize returned

normVars == <<query, normalized, result>>

VARIABLES
    \* table memory and the memory enforcer
    mem_partitions,         \* per table: its partitions, each with one column
    mem_buffer,             \* per table: bytes held by the ingest buffer
    lru,                    \* Lru: column keys, least recently used first
    mem_next_id,            \* InnerLocustDB.next_partition_id
    mem_size_limit_tables,  \* opts.mem_size_limit_tables
    epc,                    \* position of the enforcer thread
    mem_usage_bytes,        \* the enforcer's tracked usage
    victim,                 \* the key lru.evict() returned last
    todo,                   \* tables the enforcer's current loop has left
    \* observations
    evicted,                \* a column was evicted and none restored since
    mem_obs,                \* columns the current victim made the tables drop
    memops                  \* client operations so far

VARIABLES
    \* NormalFormQuery::run_aggregate and NormalFormQuery::run
    agg_in,             \* what run_aggregate finds out about the grouping key
    agg_out,            \* what run_aggregate planned and returned
    run_in,             \* the query, partition length and filter run starts from
    run_out,            \* what run planned
    sort_data,          \* the rows of a partition: a value per sort key
    sort_query,         \* the order_by and limit of the query sorting them
    sort_plan,          \* the sort operators run planned, and how many have run
    sort_indices        \* sort_indices as the operators leave it

planVars == <<agg_in, agg_out, run_in, run_out, sort_data, sort_query, sort_plan,
              sort_indices>>

memVars == <<mem_partitions, mem_buffer, lru, mem_next_id, mem_size_limit_tables,
             epc, mem_usage_bytes, victim, todo, evicted, mem_obs, memops>>

\* syntax/parser.rs: the tree parse_sql returned and the result of parse_query
VARIABLES parse_in, parse_out
parseVars == <<parse_in, parse_out>>

VARIABLES
    \* locustdb-derive: reify_types!
    reify_in,           \* the productions of the invocation
    reify_out,          \* what the macro returned
    reify_run,          \* what one run of the generated code did
    \* TypeConversionOperator
    conv_input,         \* the input buffer, and whether execute has seen it
    conv_output,        \* the output buffer, now and before the last execute
    conv_calls          \* execute calls so far

engineVars == <<reify_in, reify_out, reify_run, conv_input, conv_output, conv_calls>>

vars == <<storeVars, schedVars, normVars, memVars, planVars, parseVars, engineVars>>


(***************************************************************************)
(* mem_store/table.rs                                                      *)
(***************************************************************************)
\* batch_size_override: the two meta tables ignore the configured size
batch_size_override(batch_size, tablename) ==
    IF tablename = "_meta_tables" THEN MetaTablesBatch
    ELSE IF tablename = "_meta_queries" THEN MetaQueriesBatch
    ELSE batch_size

\* Table.batch_size as Table::new sets it (every caller passes 1 << 20,
\* which the model scales down to BatchSize)
batch_size(tablename) == batch_size_override(BatchSize, tablename)

Row(i, n) == [id |-> i, name |-> n]

\* rows i .. i+k-1 of a client call
FreshRows(i, k) == [j \in 1..k |-> Row(i + j - 1, "")]

Partition(i, k, rs) == [id |-> i, kind |-> k, rows |-> rs]

\* HashMap::insert: the entry under an id that is present is replaced
MapInsert(parts, p) == {q \in parts : q.id # p.id} \cup {p}

PartitionIds(parts) == {q.id : q \in parts}

\* Table::max_partition_id
RECURSIVE SetMax(_)
SetMax(S) ==
    IF S = {} THEN 0
    ELSE LET x == CHOOSE y \in S : TRUE
             m == SetMax(S \ {x})
         IN IF x > m THEN x ELSE m

max_partition_id(parts) == SetMax(PartitionIds(parts))

\* Table::load_table_metadata: one Table per table name of the metadata,
\* one non-resident partition per metadata record
load_table_metadata(mds) ==
    [n \in TableNames |->
        {Partition(md.id, "nonresident", <<>>) : md \in {m \in mds : m.tablename = n}}]

(***************************************************************************)
(* Threads and their call frames                                           *)
(***************************************************************************)
Frame(o, t, rs) ==
    [op |-> o, table |-> t, rows |-> rs, parts |-> {}, pid |-> 0,
     seen |-> {}, prelen |-> 0]

NoRet ==
    [op |-> "none", table |-> "", prelen |-> 0, buflen |-> 0, sealed |-> FALSE,
     before |-> 0, after |-> 0, newid |-> 0, snap |-> {}, seen |-> {}]

Top(th) == Head(stack[th])

\* pc of the first step after create_if_empty, by the frame's operation
AfterCreate(f) ==
    CASE f.op = "ingest" -> "table_ingest"
      [] f.op = "ingest_homogeneous" -> "table_ingest_homogeneous"
      [] f.op = "ingest_heterogeneous" -> "table_ingest_heterogeneous"
      [] f.op = "store_partition" -> "store_alloc"

\* the innermost call returns: its caller, if any, is create_if_empty, which
\* returns to the operation that called it
Return(th, r) ==
    /\ ret' = [ret EXCEPT ![th] = r]
    /\ stack' = [stack EXCEPT ![th] = Tail(@)]
    /\ pc' = [pc EXCEPT ![th] =
                IF Len(stack[th]) > 1 THEN AfterCreate(stack[th][2]) ELSE "idle"]

(***************************************************************************)
(* scheduler/inner_locustdb.rs: construction                               *)
(***************************************************************************)
\* InnerLocustDB::new
New ==
    /\ ~started
    /\ started' = TRUE
    /\ LET existing_tables == load_table_metadata(disk)
           present == {md.tablename : md \in disk}
           max_pid == SetMax({max_partition_id(existing_tables[n]) : n \in present})
       IN /\ tables' = present
          /\ partitions' = existing_tables
          /\ next_partition_id' = max_pid + 1
          /\ onlyIngest' = [n \in TableNames |-> existing_tables[n] = {}]
    /\ UNCHANGED <<disk, buffer, bufOwner, partReaders, pc, stack, nextRow, calls,
                   ingested, ret, created>>

(***************************************************************************)
(* Calls into the coordinator                                              *)
(***************************************************************************)
CanCall(th) ==
    /\ started
    /\ pc[th] = "idle"
    /\ calls < MaxCalls

Enter(th, f) ==
    /\ stack' = [stack EXCEPT ![th] = <<f>>]
    /\ pc' = [pc EXCEPT ![th] = "create_if_empty"]
    /\ calls' = calls + 1

\* InnerLocustDB::ingest called by a client
CallIngest(th, tbl) ==
    /\ CanCall(th)
    /\ nextRow <= MaxRows
    /\ Enter(th, Frame("ingest", tbl, FreshRows(nextRow, 1)))
    /\ nextRow' = nextRow + 1
    /\ UNCHANGED <<started, disk, tables, next_partition_id, partitions, buffer,
                   bufOwner, partReaders, ingested, ret, onlyIngest, created>>

\* InnerLocustDB::ingest_homogeneous called by a client with columns of k rows
CallIngestHomogeneous(th, tbl, k) ==
    /\ CanCall(th)
    /\ nextRow + k - 1 <= MaxRows
    /\ Enter(th, Frame("ingest_homogeneous", tbl, FreshRows(nextRow, k)))
    /\ nextRow' = nextRow + k
    /\ UNCHANGED <<started, disk, tables, next_partition_id, partitions, buffer,
                   bufOwner, partReaders, ingested, ret, onlyIngest, created>>

\* InnerLocustDB::ingest_heterogeneous called by a client with columns of k rows
CallIngestHeterogeneous(th, tbl, k) ==
    /\ CanCall(th)
    /\ nextRow + k - 1 <= MaxRows
    /\ Enter(th, Frame("ingest_heterogeneous", tbl, FreshRows(nextRow, k)))
    /\ nextRow' = nextRow + k
    /\ UNCHANGED <<started, disk, tables, next_partition_id, partitions, buffer,
                   bufOwner, partReaders, ingested, ret, onlyIngest, created>>

\* InnerLocustDB::store_partition called by a client with one-row columns
CallStorePartition(th, tbl) ==
    /\ CanCall(th)
    /\ nextRow <= MaxRows
    /\ Enter(th, Frame("store_partition", tbl, FreshRows(nextRow, 1)))
    /\ nextRow' = nextRow + 1
    /\ UNCHANGED <<started, disk, tables, next_partition_id, partitions, buffer,
                   bufOwner, partReaders, ingested, ret, onlyIngest, created>>


\* InnerLocustDB::snapshot called by a client: None for an unknown table,
\* else Table::snapshot starts with InnerLocustDB.tables read-locked
CallSnapshot(th, tbl) ==
    /\ CanCall(th)
    /\ calls' = calls + 1
    /\ IF tbl \in tables
       THEN /\ stack' = [stack EXCEPT ![th] =
                            <<[Frame("snapshot", tbl, <<>>) EXCEPT !.seen = ingested[tbl]]>>]
            /\ pc' = [pc EXCEPT ![th] = "snap_read"]
            /\ ret' = ret
       ELSE /\ ret' = [ret EXCEPT ![th] = [NoRet EXCEPT !.op = "snapshot_none", !.table = tbl]]
            /\ UNCHANGED <<stack, pc>>
    /\ UNCHANGED <<started, disk, tables, next_partition_id, partitions, buffer,
                   bufOwner, partReaders, nextRow, ingested, onlyIngest, created>>

(***************************************************************************)
(* InnerLocustDB::create_if_empty                                          *)
(***************************************************************************)
\* the existence test under the read lock
CreateIfEmptyCheck(th) ==
    /\ pc[th] = "create_if_empty"
    /\ pc' = [pc EXCEPT ![th] =
                IF Top(th).table \in tables THEN AfterCreate(Top(th)) ELSE "create_insert"]
    /\ UNCHANGED <<started, disk, tables, next_partition_id, partitions, buffer,
                   bufOwner, partReaders, stack, nextRow, calls, ingested,
                   onlyIngest, ret, created>>

\* tables.insert(name, Table::new(..)) under the write lock, then the call
\* self.ingest("_meta_tables", [(timestamp, now), (name, table)])
CreateIfEmptyInsert(th) ==
    /\ pc[th] = "create_insert"
    /\ \A reader \in Threads :
          pc[reader] \notin {"batch", "load_partition", "snap_read", "snap_buf"}
    /\ LET tbl == Top(th).table
       IN /\ tables' = tables \cup {tbl}
          /\ partitions' = [partitions EXCEPT ![tbl] = {}]
          /\ buffer' = [buffer EXCEPT ![tbl] = <<>>]
          /\ ingested' = [ingested EXCEPT ![tbl] = {}]
          /\ onlyIngest' = [onlyIngest EXCEPT ![tbl] = TRUE]
          /\ created' = created \cup {tbl}
          /\ stack' = [stack EXCEPT ![th] =
                         <<Frame("ingest", MetaTables, <<Row(nextRow, tbl)>>)>> \o @]
    /\ nextRow' = nextRow + 1
    /\ pc' = [pc EXCEPT ![th] = "create_if_empty"]
    /\ UNCHANGED <<started, disk, next_partition_id, bufOwner, partReaders, calls, ret>>

(***************************************************************************)
(* Table::ingest, ingest_heterogeneous, ingest_homogeneous, batch          *)
(***************************************************************************)
RowIds(rs) == {rs[i].id : i \in 1..Len(rs)}

\* batch_if_needed: seal unless the buffer is shorter than batch_size
NeedsBatch(len, tbl) == ~(len < batch_size(tbl))

\* batch: new_partition.id = partitions.len()
NewPartitionId(parts) == Cardinality(parts)

\* buffer.lock(); push; batch_if_needed. Without a seal the call returns;
\* with one, batch has taken the buffer and goes on to partitions.write()
PushAndBatchIfNeeded(th) ==
    LET f == Top(th)
        tbl == f.table
        pushed == buffer[tbl] \o f.rows
    IN /\ bufOwner[tbl] = NoThread
       /\ IF NeedsBatch(Len(pushed), tbl)
          THEN /\ buffer' = [buffer EXCEPT ![tbl] = <<>>]
               /\ bufOwner' = [bufOwner EXCEPT ![tbl] = th]
               /\ stack' = [stack EXCEPT ![th] =
                              <<[f EXCEPT !.rows = pushed, !.prelen = Len(buffer[tbl])]>> \o Tail(@)]
               /\ pc' = [pc EXCEPT ![th] = "batch"]
               /\ UNCHANGED <<ingested, ret>>
          ELSE /\ buffer' = [buffer EXCEPT ![tbl] = pushed]
               /\ ingested' = [ingested EXCEPT ![tbl] = @ \cup RowIds(f.rows)]
               /\ Return(th, [NoRet EXCEPT !.op = f.op, !.table = tbl,
                                           !.prelen = Len(buffer[tbl]),
                                           !.buflen = Len(pushed)])
               /\ UNCHANGED bufOwner
       /\ UNCHANGED <<started, disk, tables, next_partition_id, partitions,
                      partReaders, nextRow, calls, onlyIngest, created>>

\* Table::ingest
TableIngest(th) ==
    /\ pc[th] = "table_ingest"
    /\ PushAndBatchIfNeeded(th)

\* Table::ingest_heterogeneous
TableIngestHeterogeneous(th) ==
    /\ pc[th] = "table_ingest_heterogeneous"
    /\ PushAndBatchIfNeeded(th)

\* Table::ingest_homogeneous: buffer.lock(); push_typed_cols; return
TableIngestHomogeneous(th) ==
    /\ pc[th] = "table_ingest_homogeneous"
    /\ LET f == Top(th)
           tbl == f.table
           pushed == buffer[tbl] \o f.rows
       IN /\ bufOwner[tbl] = NoThread
          /\ buffer' = [buffer EXCEPT ![tbl] = pushed]
          /\ ingested' = [ingested EXCEPT ![tbl] = @ \cup RowIds(f.rows)]
          /\ Return(th, [NoRet EXCEPT !.op = f.op, !.table = tbl,
                                      !.prelen = Len(buffer[tbl]),
                                      !.buflen = Len(pushed)])
    /\ UNCHANGED <<started, disk, tables, next_partition_id, partitions, bufOwner,
                   partReaders, nextRow, calls, onlyIngest, created>>

\* Table::batch from partitions.write() on: insert the sealed partition under
\* id partitions.len(), release both locks, return from the ingest call
Batch(th) ==
    /\ pc[th] = "batch"
    /\ LET f == Top(th)
           tbl == f.table
           id == NewPartitionId(partitions[tbl])
           after == MapInsert(partitions[tbl], Partition(id, "sealed", f.rows))
       IN /\ partReaders[tbl] = {}
          /\ partitions' = [partitions EXCEPT ![tbl] = after]
          /\ bufOwner' = [bufOwner EXCEPT ![tbl] = NoThread]
          /\ ingested' = [ingested EXCEPT ![tbl] = @ \cup RowIds(f.rows)]
          /\ Return(th, [NoRet EXCEPT !.op = f.op, !.table = tbl,
                                      !.prelen = f.prelen,
                                      !.buflen = Len(buffer[tbl]),
                                      !.sealed = TRUE,
                                      !.before = Cardinality(partitions[tbl]),
                                      !.after = Cardinality(after),
                                      !.newid = id])
    /\ UNCHANGED <<started, disk, tables, next_partition_id, buffer, partReaders,
                   nextRow, calls, onlyIngest, created>>

(***************************************************************************)
(* InnerLocustDB::store_partition, Table::load_partition                   *)
(***************************************************************************)
\* pid = next_partition_id.fetch_add(1); storage.store_partition(pid, ..)
StoreAlloc(th) ==
    /\ pc[th] = "store_alloc"
    /\ next_partition_id' = next_partition_id + 1
    /\ disk' = disk \cup {[id |-> next_partition_id, tablename |-> Top(th).table]}
    /\ stack' = [stack EXCEPT ![th] =
                   <<[Top(th) EXCEPT !.pid = next_partition_id]>> \o Tail(@)]
    /\ pc' = [pc EXCEPT ![th] = "load_partition"]
    /\ UNCHANGED <<started, tables, partitions, buffer, bufOwner, partReaders,
                   nextRow, calls, ingested, onlyIngest, ret, created>>

\* Table::load_partition: partitions.write(); insert(partition.id, ..)
LoadPartition(th) ==
    /\ pc[th] = "load_partition"
    /\ LET f == Top(th)
           tbl == f.table
           after == MapInsert(partitions[tbl], Partition(f.pid, "stored", f.rows))
       IN /\ partReaders[tbl] = {}
          /\ partitions' = [partitions EXCEPT ![tbl] = after]
          /\ onlyIngest' = [onlyIngest EXCEPT ![tbl] = FALSE]
          /\ Return(th, [NoRet EXCEPT !.op = f.op, !.table = tbl,
                                      !.before = Cardinality(partitions[tbl]),
                                      !.after = Cardinality(after),
                                      !.newid = f.pid])
    /\ UNCHANGED <<started, disk, tables, next_partition_id, buffer, bufOwner,
                   partReaders, nextRow, calls, ingested, created>>

(***************************************************************************)
(* Table::snapshot                                                         *)
(***************************************************************************)
\* partitions.read(); partitions.values().cloned().collect()
SnapshotRead(th) ==
    /\ pc[th] = "snap_read"
    /\ LET tbl == Top(th).table
       IN /\ partReaders' = [partReaders EXCEPT ![tbl] = @ \cup {th}]
          /\ stack' = [stack EXCEPT ![th] = <<[Top(th) EXCEPT !.parts = partitions[tbl]]>>]
    /\ pc' = [pc EXCEPT ![th] = "snap_buf"]
    /\ UNCHANGED <<started, disk, tables, next_partition_id, partitions, buffer,
                   bufOwner, nextRow, calls, ingested, onlyIngest, ret, created>>

\* buffer.lock(); push the transient partition if the buffer holds rows;
\* return, releasing the buffer mutex and the partitions read lock
SnapshotBuffer(th) ==
    /\ pc[th] = "snap_buf"
    /\ LET f == Top(th)
           tbl == f.table
           transient == IF Len(buffer[tbl]) > 0
                        THEN {Partition(TransientId, "buffer", buffer[tbl])}
                        ELSE {}
       IN /\ bufOwner[tbl] = NoThread
          /\ partReaders' = [partReaders EXCEPT ![tbl] = @ \ {th}]
          /\ Return(th, [NoRet EXCEPT !.op = "snapshot", !.table = tbl,
                                      !.buflen = Len(buffer[tbl]),
                                      !.snap = f.parts \cup transient,
                                      !.seen = f.seen])
    /\ UNCHANGED <<started, disk, tables, next_partition_id, partitions, buffer,
                   bufOwner, nextRow, calls, ingested, onlyIngest, created>>

(***************************************************************************)
(* The coordinator and its tables                                          *)
(***************************************************************************)
StoreInit(disks) ==
    /\ started = FALSE
    /\ disk \in disks
    /\ tables = {}
    /\ next_partition_id = 0
    /\ partitions = [n \in TableNames |-> {}]
    /\ buffer = [n \in TableNames |-> <<>>]
    /\ bufOwner = [n \in TableNames |-> NoThread]
    /\ partReaders = [n \in TableNames |-> {}]
    /\ pc = [th \in Threads |-> "idle"]
    /\ stack = [th \in Threads |-> <<>>]
    /\ nextRow = 1
    /\ calls = 0
    /\ ingested = [n \in TableNames |-> {}]
    /\ onlyIngest = [n \in TableNames |-> TRUE]
    /\ created = {}
    /\ ret = [th \in Threads |-> NoRet]

(***************************************************************************)
(* scheduler/inner_locustdb.rs: the task scheduler                         *)
(***************************************************************************)
Workers == 1..NumWorkers
NoWorker == 0
NoTask == 0
TaskIds == 1..MaxTasks

\* the observations handed and executed count 0, 1, many
Count(n) == IF n < 2 THEN n + 1 ELSE n

\* Condvar::notify_one: the wait sets it may leave. One blocked worker is
\* woken; with none blocked the notification is lost
NotifyOne(waiters) ==
    IF waiters = {} THEN {{}} ELSE {waiters \ {w} : w \in waiters}

\* workers woken by a notification leave wait() and go for the mutex again
Wake(left) ==
    /\ idle_queue' = left
    /\ wpc' = [w \in Workers |->
                 IF w \in idle_queue \ left THEN "await_task" ELSE wpc[w]]

\* schedule without its notification: no blocked worker is woken
ScheduleNotifyLost(waiters) == {waiters}

\* the wait sets schedule's notification may leave
ScheduleNotify(waiters) == NotifyOne(waiters)

\* schedule: task_queue.lock(); push_back; idle_queue.notify_one()
Schedule(mt, n) ==
    /\ scheduled < MaxTasks
    /\ queueOwner = NoWorker
    /\ LET task == scheduled + 1
       IN /\ scheduled' = task
          /\ multithreaded' = [multithreaded EXCEPT ![task] = mt]
          /\ chunks' = [chunks EXCEPT ![task] = n]
          /\ task_queue' = Append(task_queue, task)
    /\ \E left \in ScheduleNotify(idle_queue) : Wake(left)
    /\ UNCHANGED <<running, queueOwner, cur, completed, handed, late, executed, dropped>>

\* stop storing running without the task_queue mutex
StopWithoutQueueLock == TRUE

\* whether stop may go on to store running: it holds the task_queue mutex
StopHoldsQueue == queueOwner = NoWorker

\* stop: _guard = task_queue.lock(); running.store(false); notify_all(),
\* which wakes every blocked worker
Stop ==
    /\ StopHoldsQueue
    /\ running' = FALSE
    /\ Wake({})
    /\ UNCHANGED <<task_queue, queueOwner, cur, multithreaded, chunks, completed,
                   scheduled, handed, late, executed, dropped>>

\* drop_pending_tasks: task_queue.lock(); clear()
DropPendingTasks ==
    /\ queueOwner = NoWorker
    /\ task_queue' = <<>>
    /\ dropped' = TRUE
    /\ UNCHANGED <<running, queueOwner, idle_queue, wpc, cur, multithreaded,
                   chunks, completed, scheduled, handed, late, executed>>

\* a worker_loop that goes on while tasks are queued
WorkerLoopRunsWhileQueued == running \/ task_queue # <<>>

\* the condition of worker_loop's while: running.load()
WorkerLoopRuns == running

\* worker_loop: while running.load() { await_task .. }
WorkerLoop(w) ==
    /\ wpc[w] = "worker_loop"
    /\ wpc' = [wpc EXCEPT ![w] = IF WorkerLoopRuns THEN "await_task" ELSE "exited"]
    /\ UNCHANGED <<running, task_queue, queueOwner, idle_queue, cur, multithreaded,
                   chunks, completed, scheduled, handed, late, executed, dropped>>

\* await_task popping from the back of the queue
RECURSIVE SkipCompletedFromBack(_)
SkipCompletedFromBack(q) ==
    IF q = <<>> THEN q
    ELSE IF completed[q[Len(q)]] THEN SkipCompletedFromBack(SubSeq(q, 1, Len(q) - 1))
    ELSE <<q[Len(q)]>>

\* the queue without the completed tasks at its front
RECURSIVE SkipCompleted(_)
SkipCompleted(q) ==
    IF q = <<>> THEN q
    ELSE IF completed[Head(q)] THEN SkipCompleted(Tail(q))
    ELSE q

\* await_task pushing every task it returns back to the front
AfterPopPushFrontAlways(q) == q

\* the queue await_task leaves when it returns the task at the front of q:
\* a multithreaded task is pushed back to the front
AfterPop(q) ==
    IF multithreaded[Head(q)] THEN q ELSE Tail(q)

\* await_task from task_queue.lock(), or from the return of wait(), which
\* holds the mutex again: with the queue empty go on to test running, else
\* pop up to the first task that is not completed and return it
AwaitTask(w) ==
    /\ wpc[w] = "await_task"
    /\ queueOwner = NoWorker
    /\ IF task_queue = <<>>
       THEN /\ queueOwner' = w
            /\ wpc' = [wpc EXCEPT ![w] = "test_running"]
            /\ UNCHANGED <<task_queue, idle_queue, cur, handed, late>>
       ELSE LET live == SkipCompleted(task_queue)
            IN IF live = <<>>
               THEN /\ task_queue' = <<>>
                    /\ wpc' = [wpc EXCEPT ![w] = "worker_loop"]
                    /\ UNCHANGED <<queueOwner, idle_queue, cur, handed, late>>
               ELSE /\ task_queue' = AfterPop(live)
                    /\ cur' = [cur EXCEPT ![w] = Head(live)]
                    /\ handed' = [handed EXCEPT ![Head(live)] = Count(@)]
                    /\ late' = IF running \/ late = <<>> THEN late
                                ELSE [late EXCEPT ![w] = Count(@)]
                    /\ \E left \in (IF AfterPop(live) # <<>>
                                    THEN NotifyOne(idle_queue)
                                    ELSE {idle_queue}) :
                          /\ idle_queue' = left
                          /\ wpc' = [x \in Workers |->
                                       IF x = w THEN "execute"
                                       ELSE IF x \in idle_queue \ left THEN "await_task"
                                       ELSE wpc[x]]
                    /\ UNCHANGED queueOwner
    /\ UNCHANGED <<running, multithreaded, chunks, completed, scheduled, executed,
                   dropped>>

\* await_task, queue empty and mutex held: if !running.load() { return None }
TestRunning(w) ==
    /\ wpc[w] = "test_running"
    /\ IF running
       THEN /\ wpc' = [wpc EXCEPT ![w] = "wait"]
            /\ UNCHANGED queueOwner
       ELSE /\ wpc' = [wpc EXCEPT ![w] = "worker_loop"]
            /\ queueOwner' = NoWorker
    /\ UNCHANGED <<running, task_queue, idle_queue, cur, multithreaded, chunks,
                   completed, scheduled, handed, late, executed, dropped>>

\* idle_queue.wait(task_queue): release the mutex and block, atomically
Wait(w) ==
    /\ wpc[w] = "wait"
    /\ queueOwner' = NoWorker
    /\ idle_queue' = idle_queue \cup {w}
    /\ wpc' = [wpc EXCEPT ![w] = "waiting"]
    /\ UNCHANGED <<running, task_queue, cur, multithreaded, chunks, completed,
                   scheduled, handed, late, executed, dropped>>

\* Condvar::wait may return without a notification
SpuriousWakeup(w) ==
    /\ wpc[w] = "waiting"
    /\ Wake(idle_queue \ {w})
    /\ UNCHANGED <<running, task_queue, queueOwner, cur, multithreaded, chunks,
                   completed, scheduled, handed, late, executed, dropped>>

\* Task::execute on the task handed to the worker: one unit of work; the
\* task reports completed() once no work is left
Execute(w) ==
    /\ wpc[w] = "execute"
    /\ LET task == cur[w]
           left == IF chunks[task] > 0 THEN chunks[task] - 1 ELSE 0
       IN /\ chunks' = [chunks EXCEPT ![task] = left]
          /\ completed' = [completed EXCEPT ![task] = (left = 0)]
          /\ executed' = [executed EXCEPT ![task] = Count(@)]
    /\ cur' = [cur EXCEPT ![w] = NoTask]
    /\ wpc' = [wpc EXCEPT ![w] = "worker_loop"]
    /\ UNCHANGED <<running, task_queue, queueOwner, idle_queue, multithreaded,
                   scheduled, handed, late, dropped>>

SchedInit ==
    /\ running = TRUE
    /\ task_queue = <<>>
    /\ queueOwner = NoWorker
    /\ idle_queue = {}
    /\ wpc = [w \in Workers |-> "worker_loop"]
    /\ cur = [w \in Workers |-> NoTask]
    /\ multithreaded = [t \in TaskIds |-> FALSE]
    /\ chunks = [t \in TaskIds |-> 0]
    /\ completed = [t \in TaskIds |-> FALSE]
    /\ scheduled = 0
    /\ handed = [t \in TaskIds |-> 0]
    /\ executed = [t \in TaskIds |-> 0]
    /\ dropped = FALSE


(***************************************************************************)
(* Table memory: Table::evict, restore, heap_size_of_children and the      *)
(* memory enforcer InnerLocustDB::enforce_mem_limit                        *)
(***************************************************************************)
\* the tables of the memory model, a user table and the table the
\* coordinator registers every table in; each stores one column, "a", per
\* partition
MemTables == {"t", "_meta_tables"}

\* ColumnKey: (partition id, column name); it does not name the table
ColumnKey(pid) == <<pid, "a">>

NoVictim == <<>>

\* a partition and its column: bytes is the size of the column when it is
\* resident, which the partition keeps as metadata when it is not
MemPartition(i, b, r) == [id |-> i, bytes |-> b, resident |-> r]

\* the sum of Partition::heap_size_of_children, which counts resident
\* storage only
RECURSIVE SumHeap(_)
SumHeap(parts) ==
    IF parts = {} THEN 0
    ELSE LET p == CHOOSE q \in parts : TRUE
         IN (IF p.resident THEN p.bytes ELSE 0) + SumHeap(parts \ {p})

\* the sum with its terms in the wrong roles
HeapSizeBufferLessBatches(parts, buf) == buf - SumHeap(parts)

\* Table::heap_size_of_children: batches_size + buffer_size
heap_size_of_children(parts, buf) == SumHeap(parts) + buf

\* the heap of all tables
TotalHeap ==
    LET t1 == CHOOSE n \in MemTables : TRUE
        t2 == CHOOSE n \in MemTables : n # t1
    IN heap_size_of_children(mem_partitions[t1], mem_buffer[t1])
         + heap_size_of_children(mem_partitions[t2], mem_buffer[t2])

\* Table::evict: the bytes freed and the partitions left. Partition::evict
\* drops the resident storage and returns the bytes freed
TableEvictFreed(parts, key) ==
    SumHeap({p \in parts : ColumnKey(p.id) = key})

TableEvict(parts, key) ==
    {IF ColumnKey(p.id) = key THEN [p EXCEPT !.resident = FALSE] ELSE p : p \in parts}

\* Lru::put: the key becomes the most recently used one
LruPut(l, key) == SelectSeq(l, LAMBDA k : k # key) \o <<key>>

\* a client operation may start
MemCanCall == memops < MaxMemOps

\* Table::ingest of one row of one byte: push, batch_if_needed; a seal inserts
\* a resident partition under id partitions.len() and puts its key in the LRU
MemIngest(tbl) ==
    /\ MemCanCall
    /\ memops' = memops + 1
    /\ LET len == mem_buffer[tbl] + 1
           id == NewPartitionId(mem_partitions[tbl])
       IN IF NeedsBatch(len, tbl)
          THEN /\ mem_buffer' = [mem_buffer EXCEPT ![tbl] = 0]
               /\ mem_partitions' =
                     [mem_partitions EXCEPT ![tbl] = MapInsert(@, MemPartition(id, len, TRUE))]
               /\ lru' = LruPut(lru, ColumnKey(id))
          ELSE /\ mem_buffer' = [mem_buffer EXCEPT ![tbl] = len]
               /\ UNCHANGED <<mem_partitions, lru>>
    /\ UNCHANGED <<mem_next_id, mem_size_limit_tables, epc, mem_usage_bytes,
                   victim, todo, evicted, mem_obs>>

\* InnerLocustDB::store_partition with a column of b bytes
MemStorePartition(tbl, b) ==
    /\ MemCanCall
    /\ memops' = memops + 1
    /\ mem_next_id' = mem_next_id + 1
    /\ mem_partitions' =
          [mem_partitions EXCEPT ![tbl] = MapInsert(@, MemPartition(mem_next_id, b, TRUE))]
    /\ lru' = LruPut(lru, ColumnKey(mem_next_id))
    /\ UNCHANGED <<mem_buffer, mem_size_limit_tables, epc, mem_usage_bytes,
                   victim, todo, evicted, mem_obs>>

\* Table::restore indexes partitions[&id], which panics in a table without
\* the id: a restore call over all tables panics when some table lacks it
RestorePanics(pid) ==
    \E n \in MemTables : ~\E p \in mem_partitions[n] : p.id = pid

\* InnerLocustDB::restore(id, column) after a disk read of a non-resident
\* column: for table in tables.values() { table.restore(id, &column) }.
\* A call that panics ends after the tables that came before the first table
\* without the id in the map's iteration order (done); one that returns has
\* gone through every table. Partition::restore makes the column resident
MemRestore(pid, done) ==
    /\ MemCanCall
    /\ memops' = memops + 1
    /\ \E n \in MemTables : \E p \in mem_partitions[n] :
          ColumnKey(p.id) = ColumnKey(pid) /\ ~p.resident
    /\ LET has == {n \in MemTables : \E p \in mem_partitions[n] : p.id = pid}
       IN /\ done \subseteq has
          /\ ~RestorePanics(pid) => done = MemTables
          /\ mem_partitions' =
                [n \in MemTables |->
                    IF n \in done
                    THEN {IF p.id = pid THEN [p EXCEPT !.resident = TRUE] ELSE p :
                             p \in mem_partitions[n]}
                    ELSE mem_partitions[n]]
    /\ lru' = IF done # {} THEN LruPut(lru, ColumnKey(pid)) ELSE lru
    /\ evicted' = IF done # {} THEN FALSE ELSE evicted
    /\ UNCHANGED <<mem_buffer, mem_next_id, mem_size_limit_tables, epc,
                   mem_usage_bytes, victim, todo, mem_obs>>

\* enforce_mem_limit: the loop head, after the sleep
EnforcerWake ==
    /\ epc = "sleep"
    /\ running
    /\ epc' = "measure"
    /\ mem_usage_bytes' = 0
    /\ todo' = MemTables
    /\ UNCHANGED <<mem_partitions, mem_buffer, lru, mem_next_id,
                   mem_size_limit_tables, victim, evicted, mem_obs, memops>>

\* tables.values().map(|table| table.heap_size_of_children()).sum(), one
\* table at a time, in the map's iteration order
EnforcerMeasure(tbl) ==
    /\ epc = "measure"
    /\ tbl \in todo
    /\ mem_usage_bytes' =
          mem_usage_bytes + heap_size_of_children(mem_partitions[tbl], mem_buffer[tbl])
    /\ todo' = todo \ {tbl}
    /\ epc' = IF todo' = {} THEN "loop" ELSE "measure"
    /\ UNCHANGED <<mem_partitions, mem_buffer, lru, mem_next_id,
                   mem_size_limit_tables, victim, evicted, mem_obs, memops>>

\* while mem_usage_bytes > limit { match lru.evict() { Some(victim) => ..,
\* None => break } }, then the sleep
EnforcerLoop ==
    /\ epc = "loop"
    /\ IF mem_usage_bytes > mem_size_limit_tables /\ lru # <<>>
       THEN /\ victim' = Head(lru)
            /\ lru' = Tail(lru)
            /\ todo' = MemTables
            /\ epc' = "evicting"
       ELSE /\ epc' = "sleep"
            /\ UNCHANGED <<victim, lru, todo>>
    /\ mem_obs' = {}
    /\ UNCHANGED <<mem_partitions, mem_buffer, mem_next_id, mem_size_limit_tables,
                   mem_usage_bytes, evicted, memops>>

\* mem_usage_bytes -= t.evict(&victim) on a usize: when the table frees more
\* than the tracked usage the subtraction panics (overflow checks on) or
\* wraps (overflow checks off)
EnforcerEvict(tbl, checked) ==
    /\ epc = "evicting"
    /\ tbl \in todo
    /\ LET freed == TableEvictFreed(mem_partitions[tbl], victim)
       IN /\ mem_partitions' =
                [mem_partitions EXCEPT ![tbl] = TableEvict(@, victim)]
          /\ mem_obs' = mem_obs \cup
                            {<<tbl, p.id>> : p \in {q \in mem_partitions[tbl] :
                                                      ColumnKey(q.id) = victim /\ q.resident}}
          /\ IF freed > mem_usage_bytes /\ checked
             THEN /\ epc' = "panicked"
                  /\ UNCHANGED <<mem_usage_bytes, todo, evicted>>
             ELSE /\ mem_usage_bytes' =
                        IF freed > mem_usage_bytes
                        THEN mem_usage_bytes - freed + UsizeModulus
                        ELSE mem_usage_bytes - freed
                  /\ todo' = todo \ {tbl}
                  /\ epc' = IF todo' = {} THEN "loop" ELSE "evicting"
                  /\ evicted' = (evicted \/ todo' = {})
    /\ UNCHANGED <<mem_buffer, lru, mem_next_id, mem_size_limit_tables, victim, memops>>


MemInit(disks, limits) ==
    /\ \E ids \in disks :
          /\ mem_partitions =
                [n \in MemTables |->
                    IF n = "t" THEN {MemPartition(i, 1, FALSE) : i \in ids} ELSE {}]
          /\ mem_next_id = SetMax(ids) + 1
    /\ mem_buffer = [n \in MemTables |-> 0]
    /\ lru = <<>>
    /\ mem_size_limit_tables \in limits
    /\ epc = "sleep"
    /\ mem_usage_bytes = 0
    /\ victim = NoVictim
    /\ todo = {}
    /\ evicted = FALSE
    /\ mem_obs = {}
    /\ memops = 0
(***************************************************************************)
(* engine/planning/query.rs: Query::normalize                              *)
(***************************************************************************)
\* Expr: Const, ColName, Func1, Func2 and Aggregate nodes. `name` holds the
\* constant, the column name, the function or the aggregator
Const(v) == [kind |-> "Const", name |-> v, args |-> <<>>]
ColName(n) == [kind |-> "ColName", name |-> n, args |-> <<>>]
Func1(t, e) == [kind |-> "Func1", name |-> t, args |-> <<e>>]
Func2(t, e1, e2) == [kind |-> "Func2", name |-> t, args |-> <<e1, e2>>]
Aggregate(aggregator, e) == [kind |-> "Aggregate", name |-> aggregator, args |-> <<e>>]

\* Option<String>::None of ColumnInfo.name
NoName == ""

ColumnInfo(e, n) == [expr |-> e, name |-> n]

LimitClause(l, o) == [limit |-> l, offset |-> o]

\* format!("_ca{}", n) and format!("_cs{}", n)
FormatName(prefix, n) == prefix \o ToString(n)

\* Query::ensure_no_aggregates: TRUE for Ok(()), FALSE for the TypeError
RECURSIVE ensure_no_aggregates(_)
ensure_no_aggregates(expr) ==
    CASE expr.kind = "Aggregate" -> FALSE
      [] expr.kind = "Func1" -> ensure_no_aggregates(expr.args[1])
      [] expr.kind = "Func2" ->
            ensure_no_aggregates(expr.args[1]) /\ ensure_no_aggregates(expr.args[2])
      [] OTHER -> TRUE

\* Query::extract_aggregators: ok is FALSE for an Err; column_names is the
\* vector the call leaves behind
RECURSIVE extract_aggregators(_, _, _)
extract_aggregators(expr, column_names, alias) ==
    CASE expr.kind = "Aggregate" ->
            LET column_name == FormatName("_ca", Len(column_names))
            IN [ok |-> ensure_no_aggregates(expr.args[1]),
                expr |-> ColName(column_name),
                aggregates |-> <<[aggregator |-> expr.name,
                                  info |-> ColumnInfo(expr.args[1], alias)]>>,
                column_names |-> Append(column_names, column_name)]
      [] expr.kind = "Func1" ->
            LET r == extract_aggregators(expr.args[1], column_names, alias)
            IN [r EXCEPT !.expr = Func1(expr.name, r.expr)]
      [] expr.kind = "Func2" ->
            LET r1 == extract_aggregators(expr.args[1], column_names, alias)
                r2 == extract_aggregators(expr.args[2], r1.column_names, alias)
            IN IF ~r1.ok THEN r1
               ELSE [ok |-> r2.ok,
                     expr |-> Func2(expr.name, r1.expr, r2.expr),
                     aggregates |-> r1.aggregates \o r2.aggregates,
                     column_names |-> r2.column_names]
      [] OTHER ->
            [ok |-> TRUE, expr |-> expr, aggregates |-> <<>>,
             column_names |-> column_names]

\* normalize, first loop: for col_info in &self.select
RECURSIVE SelectLoop(_, _)
SelectLoop(st, cols) ==
    IF cols = <<>> \/ ~st.ok THEN st
    ELSE LET col_info == Head(cols)
             r == extract_aggregators(col_info.expr, st.aggregate_colnames, col_info.name)
             column_name == FormatName("_cs", Len(st.select_colnames))
         IN IF ~r.ok THEN [st EXCEPT !.ok = FALSE]
            ELSE IF r.aggregates = <<>>
            THEN SelectLoop(
                    [st EXCEPT !.aggregate_colnames = r.column_names,
                               !.select_colnames = Append(@, column_name),
                               !.select = Append(@, ColumnInfo(r.expr, col_info.name)),
                               !.final_projection =
                                   Append(@, ColumnInfo(ColName(column_name), col_info.name))],
                    Tail(cols))
            ELSE SelectLoop(
                    [st EXCEPT !.aggregate_colnames = r.column_names,
                               !.aggregate = @ \o r.aggregates,
                               !.final_projection =
                                   Append(@, ColumnInfo(r.expr, col_info.name))],
                    Tail(cols))

\* normalize, second loop: for (expr, desc) in &self.order_by
RECURSIVE OrderByLoop(_, _)
OrderByLoop(st, keys) ==
    IF keys = <<>> \/ ~st.ok THEN st
    ELSE LET key == Head(keys)
             r == extract_aggregators(key.expr, st.aggregate_colnames, NoName)
             column_name == FormatName("_cs", Len(st.select_colnames))
         IN IF ~r.ok THEN [st EXCEPT !.ok = FALSE]
            ELSE IF r.aggregates = <<>>
            THEN OrderByLoop(
                    [st EXCEPT !.aggregate_colnames = r.column_names,
                               !.select_colnames = Append(@, column_name),
                               !.select = Append(@, ColumnInfo(r.expr, NoName)),
                               !.final_order_by =
                                   Append(@, [expr |-> ColName(column_name), desc |-> key.desc])],
                    Tail(keys))
            ELSE OrderByLoop(
                    [st EXCEPT !.aggregate_colnames = r.column_names,
                               !.aggregate = @ \o r.aggregates,
                               !.final_order_by =
                                   Append(@, [expr |-> r.expr, desc |-> key.desc])],
                    Tail(keys))

\* the post-pass test without its first disjunct
RequireFinalPassByProjection(aggregate, order_by, final_projection) ==
    \E i \in 1..Len(final_projection) : final_projection[i].expr.kind # "ColName"

\* the post-pass test without its second disjunct
RequireFinalPassByOrderBy(aggregate, order_by, final_projection) ==
    aggregate # <<>> /\ order_by # <<>>

\* normalize: require_final_pass
RequireFinalPass(aggregate, order_by, final_projection) ==
    \/ aggregate # <<>> /\ order_by # <<>>
    \/ \E i \in 1..Len(final_projection) : final_projection[i].expr.kind # "ColName"

\* Query::normalize: ok is FALSE for an Err; post holds the post-pass query,
\* if one is returned
normalize(q) ==
    LET NormalFormQuery(p, f, a, o, l) ==
            [projection |-> p, filter |-> f, aggregate |-> a, order_by |-> o,
             limit |-> l]
        start ==
            [ok |-> TRUE, final_projection |-> <<>>, select |-> <<>>, aggregate |-> <<>>,
             aggregate_colnames |-> <<>>, select_colnames |-> <<>>, final_order_by |-> <<>>]
        st == SelectLoop(start, q.select)
    IN IF ~st.ok THEN [ok |-> FALSE, primary |-> <<>>, post |-> <<>>]
       ELSE IF RequireFinalPass(st.aggregate, q.order_by, st.final_projection)
       THEN LET fin == OrderByLoop(st, q.order_by)
            IN IF ~fin.ok THEN [ok |-> FALSE, primary |-> <<>>, post |-> <<>>]
               ELSE [ok |-> TRUE,
                     primary |-> <<NormalFormQuery(fin.select, q.filter, fin.aggregate,
                                                   <<>>, LimitClause(U64Max, 0))>>,
                     post |-> <<NormalFormQuery(fin.final_projection, Const("1"), <<>>,
                                                fin.final_order_by, q.limit)>>]
       ELSE [ok |-> TRUE,
             primary |-> <<NormalFormQuery(st.select, q.filter, st.aggregate,
                                           q.order_by, q.limit)>>,
             post |-> <<>>]

(***************************************************************************)
(* Queries handed to normalize                                             *)
(***************************************************************************)
\* the queries normalize is called on: select lists and ORDER BY lists of up to
\* max expression nodes in all
Queries(max) ==
    LET RECURSIVE ExprsOfSize(_)
        ExprsOfSize(n) ==
            IF n = 1 THEN {ColName("a"), Const("1")}
            ELSE {Func1("to_year", e) : e \in ExprsOfSize(n - 1)}
                 \cup {Aggregate("Count", e) : e \in ExprsOfSize(n - 1)}
                 \cup UNION {{Func2("add", e1, e2) : e1 \in ExprsOfSize(i),
                                                   e2 \in ExprsOfSize(n - 1 - i)} :
                                i \in 1..(n - 2)}
        RECURSIVE SelectsOfSize(_)
        SelectsOfSize(n) ==
            IF n = 0 THEN {<<>>}
            ELSE UNION {{<<ColumnInfo(e, NoName)>> \o l : e \in ExprsOfSize(i),
                                                         l \in SelectsOfSize(n - i)} :
                           i \in 1..n}
        RECURSIVE OrderBysOfSize(_)
        OrderBysOfSize(n) ==
            IF n = 0 THEN {<<>>}
            ELSE UNION {{<<[expr |-> e, desc |-> d]>> \o l : e \in ExprsOfSize(i),
                                                            d \in BOOLEAN,
                                                            l \in OrderBysOfSize(n - i)} :
                           i \in 1..n}
    IN UNION {{[select |-> s, table |-> "t", filter |-> f, order_by |-> o,
                limit |-> LimitClause(2, 1)] :
                  s \in SelectsOfSize(i),
                  f \in {Const("1"), Func2("add", ColName("a"), Const("1"))},
                  o \in OrderBysOfSize(j)} :
                <<i, j>> \in {ij \in (0..max) \X (0..max) : ij[1] + ij[2] <= max}}

NoResult == [ok |-> FALSE, primary |-> <<>>, post |-> <<>>]

NormInit(queries) ==
    /\ query \in queries
    /\ normalized = FALSE
    /\ result = NoResult

\* a call of Query::normalize
Normalize ==
    /\ ~normalized
    /\ normalized' = TRUE
    /\ result' = normalize(query)
    /\ UNCHANGED query


(***************************************************************************)
(* engine/planning/query.rs: NormalFormQuery::run_aggregate, the sort of   *)
(* the output columns                                                      *)
(***************************************************************************)
\* the test on decode_plans.len() with > in place of !=
GroupingColumnsUnsupportedAboveOne(n) == n > 1

\* grouping_columns.len() != 1
GroupingColumnsUnsupported(n) == n # 1

NoAggOut ==
    [result |-> "none", is_grouping_key_order_preserving |-> FALSE,
     sort_by |-> "none", selected |-> {}, executed |-> FALSE, batch |-> FALSE,
     selector |-> <<"none">>, aggregation_cols |-> <<>>]

\* the selector's column pushed at the end of the columns
InsertSelectorAtEnd(cols, i, x) == Append(cols, x)

\* aggregation_cols.insert(i, (selector, aggregator)): Vec::insert at the
\* 1-based position i, the columns from i on moving one place up
InsertSelector(cols, i, x) ==
    SubSeq(cols, 1, i - 1) \o <<x>> \o SubSeq(cols, i, Len(cols))

\* run_aggregate from the choice of the grouping key on. in.hashmap is what
\* prepare_hashmap_grouping reports for is_grouping_key_order_preserving.
\* in.aggregate is self.aggregate with what compile_expr and
\* prepare_aggregation find out about each expression: whether its plan is
\* nullable and whether the aggregate buffer is tagged F64. The buffer of the
\* i-th aggregate is <<"aggregate", i>>. The output columns are the decoded
\* group-by columns and the aggregation columns
run_aggregate(in) ==
    LET is_grouping_key_order_preserving ==
            IF in.max_grouping_key < GroupingKeyLimit
            THEN in.is_raw_grouping_key_order_preserving
            ELSE in.hashmap
        n == Len(in.aggregate)
        \* the loop over self.aggregate: the last Count on a plan that is not
        \* nullable stays in selector and selector_index (0 stands for None)
        RECURSIVE SelectorLoop(_, _)
        SelectorLoop(i, selector_index) ==
            IF i > n THEN selector_index
            ELSE SelectorLoop(i + 1,
                     IF in.aggregate[i].aggregator = "Count" /\ ~in.aggregate[i].nullable
                     THEN i ELSE selector_index)
        selector_index == SelectorLoop(1, 0)
        selector == IF selector_index = 0 THEN <<"exists">>
                    ELSE <<"aggregate", selector_index>>
        decode_compact(i) ==
            IF in.aggregate[i].aggregator = "Count" /\ ~in.aggregate[i].nullable
            THEN [op |-> "nonzero_compact", aggregate |-> <<"aggregate", i>>,
                  selector |-> <<"none">>]
            ELSE [op |-> "compact", aggregate |-> <<"aggregate", i>>,
                  selector |-> selector]
        aggregator(i) ==
            LET a == in.aggregate[i].aggregator
            IN IF in.aggregate[i].f64
               THEN CASE a = "SumI64" -> "SumF64"
                      [] a = "MaxI64" -> "MaxF64"
                      [] OTHER -> a
               ELSE a
        \* the loop that pushes every column but the selector's
        RECURSIVE ColsLoop(_, _)
        ColsLoop(i, cols) ==
            IF i > n THEN cols
            ELSE ColsLoop(i + 1,
                     IF selector_index # i
                     THEN Append(cols, [col |-> decode_compact(i),
                                        aggregator |-> aggregator(i)])
                     ELSE cols)
        pushed == ColsLoop(1, <<>>)
        aggregation_cols ==
            IF selector_index # 0
            THEN InsertSelector(pushed, selector_index,
                     [col |-> decode_compact(selector_index),
                      aggregator |-> in.aggregate[selector_index].aggregator])
            ELSE pushed
        grouping_columns == {<<"group_by", i>> : i \in 1..in.decode_plans}
        outputs == grouping_columns \cup {<<"aggregate", i>> : i \in 1..n}
        ok == [NoAggOut EXCEPT
                  !.result = "Ok",
                  !.is_grouping_key_order_preserving = is_grouping_key_order_preserving,
                  !.executed = TRUE, !.batch = TRUE,
                  !.selector = selector, !.aggregation_cols = aggregation_cols]
    IN IF ~is_grouping_key_order_preserving
       THEN IF in.is_raw_grouping_key_order_preserving
            THEN [ok EXCEPT !.sort_by = "encoded_group_by_column", !.selected = outputs]
            ELSE IF GroupingColumnsUnsupported(in.decode_plans)
                 THEN [NoAggOut EXCEPT !.result = "NotImplemented"]
                 ELSE [ok EXCEPT !.sort_by = "grouping_columns[0]", !.selected = outputs]
       ELSE ok

\* a call of NormalFormQuery::run_aggregate
RunAggregate ==
    /\ agg_out.result = "none"
    /\ agg_out' = run_aggregate(agg_in)
    /\ UNCHANGED <<agg_in, run_in, run_out, sort_data, sort_query, sort_plan,
                   sort_indices>>

(***************************************************************************)
(* engine/planning/query.rs: NormalFormQuery::run, the sort plan           *)
(***************************************************************************)
\* a < b for a usize a and a small b; U64Max stands for u64::MAX
LessUsize(a, b) == a # U64Max /\ a < b

\* the keys as they are written
SortOrderForward(order_by) == order_by

\* self.order_by.iter().rev()
SortOrder(order_by) ==
    [i \in 1..Len(order_by) |-> order_by[Len(order_by) + 1 - i]]

\* the top-N test without the clause on the number of keys
UseTopNForAnyKeys(limit, partition_len, keys) == LessUsize(limit, partition_len \div 2)

\* limit < partition_len / 2 && self.order_by.len() == 1
UseTopN(limit, partition_len, keys) ==
    LessUsize(limit, partition_len \div 2) /\ keys = 1

\* planner.top_n(ranking, limit, desc) and planner.sort_by(ranking, indices,
\* desc, stable); input tells whether the indices are planner.indices(ranking)
\* or the previous sort_indices
SortOp(op, key, n, input, desc, stable) ==
    [op |-> op, key |-> key, n |-> n, desc |-> desc, stable |-> stable,
     input |-> input]

\* the loop over the keys: ops holds the operators planned so far, the last
\* of which yields sort_indices
RECURSIVE SortLoop(_, _, _, _, _)
SortLoop(keys, ops, limit, partition_len, n) ==
    IF keys = <<>> THEN ops
    ELSE LET key == Head(keys)
             next == IF UseTopN(limit, partition_len, n)
                     THEN SortOp("top_n", key.expr, limit, "ranking", key.desc, FALSE)
                     ELSE IF ops = <<>>
                          THEN SortOp("sort_by", key.expr, 0, "indices", key.desc, FALSE)
                          ELSE SortOp("sort_by", key.expr, 0, "sort_indices", key.desc, TRUE)
         IN SortLoop(Tail(keys), Append(ops, next), limit, partition_len, n)

NoRunOut ==
    [status |-> "none", limit |-> 0, ops |-> <<>>,
     filter |-> [kind |-> "None", mask |-> "none"]]

\* NormalFormQuery::run up to the filter the projection is compiled with.
\* limit + offset is a u64 addition, every value but U64Max small: an
\* overflow panics (overflow checks on) or wraps (overflow checks off). The
\* filter of the WHERE clause goes by the encoding of its plan; once
\* sort_indices is Some it is the mask, if any, selected by the permutation
run(in, checked) ==
    LET a == in.limit.limit
        b == in.limit.offset
        panic == a = U64Max /\ b > 0 /\ checked
        limit == IF a # U64Max THEN a + b ELSE IF b = 0 THEN U64Max ELSE b - 1
        filter == CASE in.filter_tag = "U8" -> [kind |-> "U8", mask |-> "none"]
                    [] in.filter_tag = "NullableU8" ->
                          [kind |-> "NullableU8", mask |-> "none"]
                    [] OTHER -> [kind |-> "None", mask |-> "none"]
        indices ==
            CASE filter.kind = "U8" -> [kind |-> "Indices", mask |-> "U8"]
              [] filter.kind = "NullableU8" -> [kind |-> "Indices", mask |-> "NullableU8"]
              [] filter.kind = "None" -> [kind |-> "Indices", mask |-> "none"]
              [] filter.kind = "Indices" -> [kind |-> "unreachable", mask |-> "none"]
        ops == SortLoop(SortOrder(in.order_by), <<>>, limit, in.partition_len,
                        Len(in.order_by))
    IN IF panic THEN [NoRunOut EXCEPT !.status = "panic"]
       ELSE [status |-> "Ok", limit |-> limit, ops |-> ops,
             filter |-> IF ops # <<>> THEN indices ELSE filter]

\* the columns ORDER BY may name, and the ORDER BY lists of up to n keys
SortKeys == {"a", "b"}

RECURSIVE OrderByLists(_)
OrderByLists(n) ==
    IF n = 0 THEN {<<>>}
    ELSE OrderByLists(n - 1)
         \cup {<<[expr |-> k, desc |-> d]>> \o l :
                  k \in SortKeys, d \in BOOLEAN,
                  l \in {x \in OrderByLists(n - 1) : Len(x) = n - 1}}

RunInputs ==
    [order_by : OrderByLists(MaxOrderBy),
     limit : {LimitClause(l, o) : l \in 0..MaxLimit, o \in 0..1}
                \cup {LimitClause(U64Max, 0), LimitClause(U64Max, 1)},
     partition_len : 0..MaxPartitionLen,
     filter_tag : {"U8", "NullableU8", "I64"}]

\* a call of NormalFormQuery::run
Run ==
    /\ run_out.status = "none"
    /\ \E checked \in BOOLEAN : run_out' = run(run_in, checked)
    /\ UNCHANGED <<agg_in, agg_out, run_in, sort_data, sort_query, sort_plan,
                   sort_indices>>

(***************************************************************************)
(* The sort operators run plans, applied to the rows of a partition        *)
(***************************************************************************)
\* row x comes strictly before row y in the order of one key
Before(x, y, key, desc) ==
    IF desc THEN sort_data[x][key] > sort_data[y][key]
    ELSE sort_data[x][key] < sort_data[y][key]

\* what an operator of the plan may leave in sort_indices. sort_by, unstable:
\* any arrangement of the input in the order of the key; sort_by, stable: rows
\* that tie on the key keep the order they have in the input; top_n: the
\* first n rows of some arrangement in the order of the key
Apply(o, prev) ==
    LET input == IF o.input = "sort_indices" THEN prev
                 ELSE [i \in 1..PartitionRows |-> i]
        len == Len(input)
        Arrangements ==
            {[i \in 1..len |-> input[f[i]]] :
                f \in {g \in [1..len -> 1..len] :
                          \A i, j \in 1..len : i # j => g[i] # g[j]}}
        Sorted == {p \in Arrangements :
                     \A i, j \in 1..len : i < j => ~Before(p[j], p[i], o.key, o.desc)}
        Position(x) == CHOOSE i \in 1..len : input[i] = x
        Stable == {p \in Sorted :
                     \A i, j \in 1..len :
                        (i < j /\ ~Before(p[i], p[j], o.key, o.desc))
                            => Position(p[i]) < Position(p[j])}
    IN CASE o.op = "top_n" ->
              {SubSeq(p, 1, IF LessUsize(o.n, len) THEN o.n ELSE len) : p \in Sorted}
         [] o.stable -> Stable
         [] OTHER -> Sorted

NoSortPlan == [planned |-> FALSE, ops |-> <<>>, pos |-> 0]

SortInit(values, lists, limits) ==
    /\ sort_data \in [1..PartitionRows -> [SortKeys -> values]]
    /\ sort_query \in [order_by : lists, limit : limits]
    /\ sort_plan = NoSortPlan
    /\ sort_indices = <<>>

\* run plans the sort of the partition
SortPlan ==
    /\ ~sort_plan.planned
    /\ \E checked \in BOOLEAN :
          LET out == run([order_by |-> sort_query.order_by, limit |-> sort_query.limit,
                          partition_len |-> PartitionRows, filter_tag |-> "I64"], checked)
          IN /\ out.status = "Ok"
             /\ sort_plan' = [planned |-> TRUE, ops |-> out.ops, pos |-> 0]
    /\ UNCHANGED <<agg_in, agg_out, run_in, run_out, sort_data, sort_query, sort_indices>>

\* the executor runs the next sort operator of the plan
SortStep ==
    /\ sort_plan.planned
    /\ sort_plan.pos < Len(sort_plan.ops)
    /\ sort_plan' = [sort_plan EXCEPT !.pos = @ + 1]
    /\ sort_indices' \in Apply(sort_plan.ops[sort_plan.pos + 1], sort_indices)
    /\ UNCHANGED <<agg_in, agg_out, run_in, run_out, sort_data, sort_query>>
(***************************************************************************)
(* syntax/parser.rs: parse_query on the tree sqlparser returns             *)
(***************************************************************************)
\* Option: None is the empty sequence, <<x>> the sequence <<x>>
None == <<>>

\* ASTNode. `id` holds the identifier, the function name, the operator or
\* the variant of a Value, `long` the integer of Value::Long, `args` the
\* operands
SQLWildcard == [node |-> "SQLWildcard", id |-> "", long |-> 0, args |-> <<>>]
SQLIdentifier(s) == [node |-> "SQLIdentifier", id |-> s, long |-> 0, args |-> <<>>]
SQLValue(variant, int) == [node |-> "SQLValue", id |-> variant, long |-> int, args |-> <<>>]
SQLBinaryExpr(left, op, right) ==
    [node |-> "SQLBinaryExpr", id |-> op, long |-> 0, args |-> <<left, right>>]
SQLFunction(id, args) == [node |-> "SQLFunction", id |-> id, long |-> 0, args |-> args]

\* RawVal::Int, written as its Debug text (RawVal::Null is "Null")
RawValInt(int) == "Int(" \o ToString(int) \o ")"

\* str::to_uppercase on the function names in use
ToUppercase(id) ==
    CASE id = "to_year" -> "TO_YEAR"
      [] id = "count" -> "COUNT"
      [] id = "sum" -> "SUM"
      [] id = "max" -> "MAX"
      [] OTHER -> id

\* Result: err is "" for Ok(val), else the QueryError variant
Ok(v) == [err |-> "", val |-> v]
Err(e, v) == [err |-> e, val |-> v]

\* map_operator
map_operator(o) ==
    CASE o = "And" -> Ok("And")
      [] o = "Plus" -> Ok("Add")
      [] o = "Minus" -> Ok("Subtract")
      [] o = "Multiply" -> Ok("Multiply")
      [] o = "Divide" -> Ok("Divide")
      [] o = "Gt" -> Ok("GT")
      [] o = "Lt" -> Ok("LT")
      [] o = "Eq" -> Ok("Equals")
      [] o = "NotEq" -> Ok("NotEquals")
      [] o = "Or" -> Ok("Or")
      [] OTHER -> Err("NotImplemented", o)

\* get_raw_val
get_raw_val(constant) ==
    CASE constant.id = "Long" -> Ok(RawValInt(constant.long))
      [] constant.id = "Null" -> Ok("Null")
      [] OTHER -> Err("NotImplemented", "")

\* expr, the function of parser.rs
RECURSIVE ParseExpr(_)
ParseExpr(node) ==
    CASE node.node = "SQLBinaryExpr" ->
            LET op == map_operator(node.id)
                left == ParseExpr(node.args[1])
                right == ParseExpr(node.args[2])
            IN IF op.err # "" THEN Err(op.err, Const(""))
               ELSE IF left.err # "" THEN left
               ELSE IF right.err # "" THEN right
               ELSE Ok(Func2(op.val, left.val, right.val))
      [] node.node = "SQLValue" ->
            LET literal == get_raw_val(node)
            IN IF literal.err # "" THEN Err(literal.err, Const(""))
               ELSE Ok(Const(literal.val))
      [] node.node = "SQLIdentifier" -> Ok(ColName(node.id))
      [] node.node = "SQLFunction" ->
            IF ToUppercase(node.id) = "TO_YEAR"
            THEN IF Len(node.args) # 1 THEN Err("ParseError", Const(""))
                 ELSE LET arg == ParseExpr(node.args[1])
                      IN IF arg.err # "" THEN arg
                         ELSE Ok(Func1("ToYear", arg.val))
            ELSE Err("NotImplemented", Const(""))
      [] OTHER -> Err("NotImplemented", Const(""))

\* get_query_components: the error it returns, "" for Ok
get_query_components(ast) ==
    IF ast.node = "SQLSelect"
    THEN IF ast.group_by # None THEN "NotImplemented"
         ELSE IF ast.having # None THEN "NotImplemented"
         ELSE ""
    ELSE "NotImplemented"

\* get_select_aggregate; SelectAggregateLoop is its loop from element i on
get_select_aggregate(projection) ==
    LET RECURSIVE SelectAggregateLoop(_, _, _)
        SelectAggregateLoop(i, select, aggregate) ==
            IF i > Len(projection)
            THEN Ok([select |-> select, aggregate |-> aggregate])
            ELSE LET elem == projection[i]
                     id == ToUppercase(elem.id)
                     none == [select |-> <<>>, aggregate |-> <<>>]
                 IN IF elem.node = "SQLFunction" /\ id \in {"COUNT", "SUM"}
                    THEN IF Len(elem.args) # 1 THEN Err("ParseError", none)
                         ELSE LET arg == ParseExpr(elem.args[1])
                                  aggregator == IF id = "COUNT" THEN "Count" ELSE "Sum"
                              IN IF arg.err # "" THEN Err(arg.err, none)
                                 ELSE SelectAggregateLoop(i + 1, select,
                                          Append(aggregate, <<aggregator, arg.val>>))
                    ELSE IF elem.node = "SQLWildcard"
                    THEN SelectAggregateLoop(i + 1,
                                             Append(select, ColName("*")), aggregate)
                    ELSE LET e == ParseExpr(elem)
                         IN IF e.err # "" THEN Err(e.err, none)
                            ELSE SelectAggregateLoop(i + 1,
                                                     Append(select, e.val), aggregate)
    IN SelectAggregateLoop(1, <<>>, <<>>)

\* get_table_name
get_table_name(relation) ==
    IF relation = None THEN Err("ParseError", "")
    ELSE IF relation[1].node = "SQLIdentifier" THEN Ok(relation[1].id)
    ELSE Err("ParseError", "")

\* get_order_by; GetOrderByLoop is its loop from element i on
get_order_by(order_by) ==
    LET RECURSIVE GetOrderByLoop(_, _, _)
        GetOrderByLoop(exprs, i, order) ==
            IF i > Len(exprs) THEN Ok(order)
            ELSE LET e == ParseExpr(exprs[i].expr)
                 IN IF e.err # "" THEN Err(e.err, <<>>)
                    ELSE GetOrderByLoop(exprs, i + 1,
                                        Append(order, <<e.val, ~exprs[i].asc>>))
    IN IF order_by = None THEN Ok(<<>>) ELSE GetOrderByLoop(order_by[1], 1, <<>>)

\* the limit of a query that has no LIMIT clause
DefaultLimit == 100

\* the limit of a query without a LIMIT clause taken as no limit at all
GetLimitUnlimitedDefault(limit) ==
    IF limit = None THEN Ok(U64Max)
    ELSE IF limit[1].node = "SQLValue" /\ limit[1].id = "Long"
    THEN Ok(IF limit[1].long < 0 THEN U64Max - ((-1) - limit[1].long)
            ELSE limit[1].long)
    ELSE Err("NotImplemented", 0)

\* get_limit; `int as u64` writes the values above i64::MAX by their
\* distance from u64::MAX
get_limit(limit) ==
    IF limit = None THEN Ok(DefaultLimit)
    ELSE IF limit[1].node = "SQLValue" /\ limit[1].id = "Long"
    THEN Ok(IF limit[1].long < 0 THEN U64Max - ((-1) - limit[1].long)
            ELSE limit[1].long)
    ELSE Err("NotImplemented", 0)

\* Err(e) of parse_query, and the state before parse_query has returned
ParseErr(e) ==
    [status |-> e,
     query |-> [select |-> <<>>, table |-> "", filter |-> Const(""), aggregate |-> <<>>,
                order_by |-> <<>>, limit |-> LimitClause(0, 0)]]
NoParseOut == ParseErr("none")

\* parse_query on the result of Parser::parse_sql
parse_query(ast) ==
    IF ast.node = "ParserError" THEN ParseErr("ParseError")
    ELSE IF ast.node = "TokenizerError" THEN ParseErr("FatalError")
    ELSE
    LET components == get_query_components(ast)
        sa == get_select_aggregate(ast.projection)
        table == get_table_name(ast.relation)
        filter == IF ast.selection = None THEN Ok(Const(RawValInt(1)))
                  ELSE ParseExpr(ast.selection[1])
        order_by == get_order_by(ast.order_by)
        limit == get_limit(ast.limit)
    IN IF components # "" THEN ParseErr(components)
       ELSE IF sa.err # "" THEN ParseErr(sa.err)
       ELSE IF table.err # "" THEN ParseErr(table.err)
       ELSE IF filter.err # "" THEN ParseErr(filter.err)
       ELSE IF order_by.err # "" THEN ParseErr(order_by.err)
       ELSE IF limit.err # "" THEN ParseErr(limit.err)
       ELSE [status |-> "Ok",
             query |-> [select |-> sa.val.select,
                        table |-> table.val,
                        filter |-> filter.val,
                        aggregate |-> sa.val.aggregate,
                        order_by |-> order_by.val,
                        limit |-> LimitClause(limit.val, 0)]]

\* the nodes queries are built from
ExprNodes ==
    {SQLIdentifier("ts"), SQLValue("Long", 1), SQLValue("Double", 0),
     SQLFunction("to_year", <<SQLIdentifier("ts")>>),
     SQLFunction("TO_YEAR", <<SQLFunction("to_year", <<SQLValue("Null", 0)>>)>>),
     SQLFunction("to_year", <<>>),
     SQLBinaryExpr(SQLIdentifier("ts"), "Gt", SQLValue("Long", 1))}
SQLSelect(projection, relation, selection, order_by, group_by, having, limit) ==
    [node |-> "SQLSelect", projection |-> projection, relation |-> relation,
     selection |-> selection, order_by |-> order_by, group_by |-> group_by,
     having |-> having, limit |-> limit]

\* what Parser::parse_sql returns when it returns no SELECT
NotASelect(n) ==
    [SQLSelect(<<>>, None, None, None, None, None, None) EXCEPT !.node = n]

\* what Parser::parse_sql may return, with projections of up to max elements
ParseResults(max) ==
    LET ProjectionNodes ==
            ExprNodes
            \cup {SQLWildcard, SQLFunction("count", <<SQLValue("Long", 1)>>),
                  SQLFunction("sum", <<SQLIdentifier("ts")>>),
                  SQLFunction("COUNT", <<SQLWildcard>>),
                  SQLFunction("max", <<SQLIdentifier("ts")>>)}
        RECURSIVE Projections(_)
        Projections(n) ==
            IF n = 0 THEN {<<>>}
            ELSE Projections(n - 1)
                 \cup {Append(q, e) : q \in {x \in Projections(n - 1) : Len(x) = n - 1},
                                      e \in ProjectionNodes}
    IN
    {NotASelect(n) :
        n \in {"ParserError", "TokenizerError", "SQLInsert"}}
    \cup {SQLSelect(p, r, s, o, g, h, l) :
            p \in Projections(max),
            r \in {None, <<SQLIdentifier("default")>>, <<SQLValue("Long", 1)>>},
            s \in {None} \cup {<<e>> : e \in {SQLWildcard,
                       SQLBinaryExpr(SQLIdentifier("ts"), "Gt", SQLValue("Long", 1)),
                       SQLBinaryExpr(SQLIdentifier("ts"), "Like", SQLValue("Long", 1))}},
            o \in {None, <<<<[expr |-> SQLIdentifier("ts"), asc |-> FALSE]>>>>},
            g \in {None, <<<<SQLIdentifier("ts")>>>>},
            h \in {None, <<SQLValue("Long", 1)>>},
            l \in {None, <<SQLValue("Long", 2)>>, <<SQLValue("Long", -1)>>,
                   <<SQLIdentifier("ts")>>}}

\* parse_query
ParseQuery ==
    /\ parse_out = NoParseOut
    /\ parse_out' = parse_query(parse_in)
    /\ UNCHANGED parse_in
(***************************************************************************)
(* locustdb-derive/src/reify_types.rs: the reify_types! macro and the code *)
(* it generates                                                            *)
(***************************************************************************)
\* fn types: the encodings of a type class, in the order of the vec
types(t) ==
    CASE t = "Str" -> <<"Str">>
      [] t = "IntegerNoU64" -> <<"U8", "U16", "U32", "I64">>
      [] t = "NumberNoU64" -> <<"U8", "U16", "U32", "I64", "F64">>
      [] t = "Integer" -> <<"U8", "U16", "U32", "U64", "I64">>
      [] t = "Float" -> <<"F64">>
      [] t = "NullableInteger" ->
            <<"NullableU8", "NullableU16", "NullableU32", "NullableI64">>
      [] t = "NullableFloat" -> <<"NullableF64">>
      [] t = "Primitive" ->
            <<"U8", "U16", "U32", "U64", "I64", "F64", "Str", "OptStr">>
      [] t = "NullablePrimitive" ->
            <<"NullableU8", "NullableU16", "NullableU32", "NullableI64",
              "NullableF64", "NullableStr">>
      [] t = "PrimitiveUSize" ->
            <<"U8", "U16", "U32", "U64", "I64", "F64", "Str", "USize">>
      [] t = "PrimitiveNoU64" -> <<"U8", "U16", "U32", "I64", "F64", "Str">>
      [] t = "Const" -> <<"ScalarI64", "ScalarStr">>
      [] t = "ScalarI64" -> <<"ScalarI64">>
      [] t = "ScalarStr" -> <<"ScalarStr">>
      [] t = "IntAggregator" ->
            <<"AggregatorCount", "AggregatorSumI64", "AggregatorMaxI64",
              "AggregatorMinI64">>
      [] t = "FloatAggregator" ->
            <<"AggregatorCount", "AggregatorSumF64", "AggregatorMaxF64",
              "AggregatorMinF64">>
      [] OTHER -> None

\* what the macro returns: emitted is "error" for the empty TokenStream that
\* follows a diagnostic, "code" for the checks and the match, "none" before
\* the expansion. A check is the pair <<v0, v>> of `if v0.tag != v.tag`;
\* match_expr lists the variables whose tags are matched on; an arm has the
\* tuple of encodings of its pattern, the (variable, encoding) pairs of the
\* let statements put before the body, and the production its body is of;
\* the last arm binds t
TokenStream(emitted, type_equalities, match_expr, arms) ==
    [emitted |-> emitted, type_equalities |-> type_equalities,
     match_expr |-> match_expr, arms |-> arms]

\* the checks of a declaration with the slice taken at variables[2..]
TypeEqualitiesFromSecond(variables) ==
    [k \in 1..(IF Len(variables) > 2 THEN Len(variables) - 2 ELSE 0) |->
        <<variables[1], variables[k + 2]>>]

\* the checks pushed for one declaration: v0 = variables[0] against every v
\* of variables[1..]
TypeEqualities(variables) ==
    [k \in 1..(Len(variables) - 1) |-> <<variables[1], variables[k + 1]>>]

\* the 'outer loop: indices counts through the type domains like an
\* odometer, the first declaration's index moving fastest
CrossProduct(type_domains) ==
    LET n == Len(type_domains)
        RECURSIVE Outer(_, _)
        RECURSIVE Inner(_, _, _)
        Outer(indices, cross_product) ==
            Inner(1, indices,
                  Append(cross_product,
                         [t \in 1..n |-> type_domains[t][indices[t]]]))
        \* the for loop over i, with the indices counted from 1
        Inner(i, indices, cross_product) ==
            LET bumped == [indices EXCEPT ![i] = @ + 1]
            IN IF bumped[i] <= Len(type_domains[i])
               THEN Outer(bumped, cross_product)
               ELSE IF i = n THEN cross_product
               ELSE Inner(i + 1, [bumped EXCEPT ![i] = 1], cross_product)
    IN Outer([t \in 1..n |-> 1], <<>>)

\* the macro, applied to its parsed input: a sequence of productions, each
\* with its declarations (specs) and its body (expr)
reify_types(productions) ==
    LET Failed == [error |-> TRUE]
        \* the loop over the declarations of one production
        RECURSIVE Declarations(_, _, _, _, _)
        Declarations(specs, type_domains, variable_groups, unified, equalities) ==
            IF specs = <<>>
            THEN [error |-> FALSE, type_domains |-> type_domains,
                  variable_groups |-> variable_groups,
                  unified_variable_groups |-> unified,
                  type_equalities |-> equalities]
            ELSE LET d == Head(specs)
                     eqs == equalities \o TypeEqualities(d.variables)
                     ts == types(d.t)
                     groups == Append(variable_groups, d.variables)
                     i == Len(groups)
                 IN IF ts = None THEN Failed
                    ELSE IF Len(unified) < Len(groups)
                    THEN Declarations(Tail(specs), Append(type_domains, ts), groups,
                                      Append(unified, d.variables), eqs)
                    ELSE IF groups[i] # unified[i] THEN Failed
                    ELSE Declarations(Tail(specs), Append(type_domains, ts), groups,
                                      unified, eqs)
        \* one arm: the pattern is the tuple of the encodings, and every
        \* variable of the i-th group is reified with the i-th encoding
        MatchArm(tys, variable_groups, expr) ==
            LET RECURSIVE Reify(_)
                Reify(i) ==
                    IF i > Len(tys) THEN <<>>
                    ELSE [k \in 1..Len(variable_groups[i]) |->
                             <<variable_groups[i][k], tys[i]>>] \o Reify(i + 1)
            IN [binding |-> FALSE, pattern |-> tys, reify |-> Reify(1), expr |-> expr]
        \* the loop over the productions
        RECURSIVE Productions(_, _, _, _)
        Productions(ps, all_match_arms, unified, equalities) ==
            IF ps = <<>>
            THEN TokenStream("code", equalities,
                     [g \in 1..Len(unified) |-> unified[g][1]],
                     Append(all_match_arms,
                            [binding |-> TRUE, pattern |-> <<>>, reify |-> <<>>,
                             expr |-> "not supported for type"]))
            ELSE LET r == Declarations(Head(ps).specs, <<>>, <<>>, unified, equalities)
                 IN IF r.error THEN TokenStream("error", <<>>, <<>>, <<>>)
                    ELSE IF Len(r.variable_groups) # Len(r.unified_variable_groups)
                    THEN TokenStream("error", <<>>, <<>>, <<>>)
                    ELSE LET cross_product == CrossProduct(r.type_domains)
                         IN Productions(Tail(ps),
                                all_match_arms \o
                                    [k \in 1..Len(cross_product) |->
                                        MatchArm(cross_product[k], r.variable_groups,
                                                 Head(ps).expr)],
                                r.unified_variable_groups, r.type_equalities)
    IN Productions(productions, <<>>, <<>>, <<>>)

\* the invocations the macro is expanded on: up to maxp productions of up to
\* maxd declarations, no variable named twice in a production; the body of
\* the k-th production is named k
ReifyInputs(maxp, maxd) ==
    LET Decls == [variables : {<<"a", "b">>}, t : {"Const", "ScalarStr"}]
                    \cup [variables : {<<"c">>, <<"d">>}, t : {"Const"}]
        Names(specs) == UNION {{specs[i].variables[k] : k \in 1..Len(specs[i].variables)} :
                                  i \in 1..Len(specs)}
        RECURSIVE Specs(_)
        Specs(n) ==
            IF n = 0 THEN {<<>>}
            ELSE UNION {{Append(s, d) :
                            d \in {x \in Decls :
                                      \A k \in 1..Len(x.variables) :
                                          x.variables[k] \notin Names(s)}} :
                        s \in Specs(n - 1)}
        AllSpecs == UNION {Specs(n) : n \in 1..maxd}
        RECURSIVE Inputs(_)
        Inputs(n) ==
            IF n = 0 THEN {<<>>}
            ELSE {Append(ps, [specs |-> s, expr |-> n]) :
                     ps \in Inputs(n - 1), s \in AllSpecs}
    IN UNION {Inputs(n) : n \in 1..maxp}

\* the expansion of the macro at build time
ReifyTypes ==
    /\ reify_out.emitted = "none"
    /\ reify_out' = reify_types(reify_in)
    /\ UNCHANGED <<reify_in, reify_run, conv_input, conv_output, conv_calls>>

\* one run of the generated code with the variables holding buffers of the
\* given tags. Only code that rustc accepts runs: every arm's pattern has the
\* shape of the matched tuple
Dispatch(tags) ==
    /\ reify_out.emitted = "code"
    /\ reify_run.kind = "none"
    /\ \A k \in 1..Len(reify_out.arms) :
          reify_out.arms[k].binding
              \/ Len(reify_out.arms[k].pattern) = Len(reify_out.match_expr)
    /\ LET eqs == reify_out.type_equalities
           differ == {k \in 1..Len(eqs) : tags[eqs[k][1]] # tags[eqs[k][2]]}
           first == CHOOSE k \in differ : \A j \in differ : k <= j
           value == [i \in 1..Len(reify_out.match_expr) |-> tags[reify_out.match_expr[i]]]
           hits == {k \in 1..Len(reify_out.arms) :
                       reify_out.arms[k].binding \/ reify_out.arms[k].pattern = value}
           arm == CHOOSE k \in hits : \A j \in hits : k <= j
       IN reify_run' =
            IF differ # {}
            THEN [kind |-> "Expected identical types", tags |-> tags, arm |-> 0,
                  expr |-> <<eqs[first][1], tags[eqs[first][1]],
                             eqs[first][2], tags[eqs[first][2]]>>]
            ELSE IF reify_out.arms[arm].binding
            THEN [kind |-> "not supported for type", tags |-> tags, arm |-> arm,
                  expr |-> value]
            ELSE [kind |-> "body", tags |-> tags, arm |-> arm,
                  expr |-> reify_out.arms[arm].expr]
    /\ UNCHANGED <<reify_in, reify_out, conv_input, conv_output, conv_calls>>

(***************************************************************************)
(* engine/operators/type_conversion.rs: TypeConversionOperator<u16, u8>    *)
(***************************************************************************)
\* impl Cast<u8> for u16: self as u8 keeps the low eight bits
Cast(d) == d % 256

\* execute without the clear of the output
ExecuteAppendOnly(stream, data, output) ==
    output \o [i \in 1..Len(data) |-> Cast(data[i])]

\* TypeConversionOperator::execute: what it leaves in the output buffer
execute(stream, data, output) ==
    LET RECURSIVE Push(_, _)
        Push(rest, out) ==
            IF rest = <<>> THEN out
            ELSE Push(Tail(rest), Append(out, Cast(Head(rest))))
    IN Push(data, IF stream THEN <<>> ELSE output)

\* the upstream operator leaves the next chunk in the input buffer
ConvInput(chunk) ==
    /\ conv_calls < MaxConvCalls
    /\ conv_input.executed
    /\ conv_input' = [data |-> chunk, executed |-> FALSE]
    /\ UNCHANGED <<conv_output, conv_calls, reify_in, reify_out, reify_run>>

\* the executor calls execute(stream, scratchpad) on the chunk
ConvExecute(stream) ==
    /\ ~conv_input.executed
    /\ conv_input' = [conv_input EXCEPT !.executed = TRUE]
    /\ conv_output' = [before |-> conv_output.data, stream |-> stream,
                       data |-> execute(stream, conv_input.data, conv_output.data)]
    /\ conv_calls' = conv_calls + 1
    /\ UNCHANGED <<reify_in, reify_out, reify_run>>

(***************************************************************************)
(* Specifications                                                          *)
(***************************************************************************)
\* the state after construction, with the inputs of component s drawn from
\* their sets and every other component before its first call
InitOf(s) ==
    /\ SchedInit
    /\ late = (IF s = "Stop" THEN [w \in Workers |-> 0] ELSE <<>>)
    /\ NormInit(IF s = "Norm" THEN Queries(MaxQueryNodes)
                ELSE {[select |-> <<>>, table |-> "t", filter |-> Const("1"),
                       order_by |-> <<>>, limit |-> LimitClause(2, 1)]})
    /\ agg_out = NoAggOut
    /\ run_out = NoRunOut
    /\ parse_out = NoParseOut
    /\ agg_in \in (IF s = "Agg"
               THEN [max_grouping_key : {GroupingKeyLimit - 1, GroupingKeyLimit},
                     is_raw_grouping_key_order_preserving : BOOLEAN,
                     hashmap : BOOLEAN,
                     decode_plans : 0..MaxGroupBy,
                     aggregate :
                         LET RECURSIVE Aggregates(_)
                             Aggregates(k) ==
                                 IF k = 0 THEN {<<>>}
                                 ELSE Aggregates(k - 1) \cup
                                      {Append(l, a) :
                                          l \in {x \in Aggregates(k - 1) : Len(x) = k - 1},
                                          a \in {x \in [aggregator : {"Count", "SumI64", "MaxI64"},
                                                       nullable : BOOLEAN, f64 : BOOLEAN] :
                                                    x.aggregator = "Count" => ~x.f64}}
                         IN Aggregates(MaxAggregates) \ {<<>>}]
               ELSE {[max_grouping_key |-> 0,
                      is_raw_grouping_key_order_preserving |-> TRUE,
                      hashmap |-> FALSE, decode_plans |-> 0,
                      aggregate |-> <<[aggregator |-> "Count", nullable |-> FALSE,
                                       f64 |-> FALSE]>>]})
    /\ run_in \in (IF s = "Run" THEN RunInputs
               ELSE {[order_by |-> <<>>, limit |-> LimitClause(U64Max, 0),
                      partition_len |-> 0, filter_tag |-> "U8"]})
    /\ IF s = "Sort"
       THEN SortInit({0, 1}, OrderByLists(MaxOrderBy),
                     {LimitClause(U64Max, 0), LimitClause(0, 0)})
       ELSE SortInit({0}, {<<>>}, {LimitClause(U64Max, 0)})
    /\ parse_in \in (IF s = "Parse" THEN ParseResults(MaxProjection)
                     ELSE {NotASelect("ParserError")})
    /\ reify_in \in (IF s = "Reify" THEN ReifyInputs(MaxProductions, MaxDeclarations)
                     ELSE {<<[specs |-> <<[variables |-> <<"a">>, t |-> "Str"]>>,
                              expr |-> 1]>>})
    /\ reify_out = TokenStream("none", <<>>, <<>>, <<>>)
    /\ reify_run = [kind |-> "none"]
    /\ conv_input = [data |-> <<>>, executed |-> TRUE]
    /\ conv_output = [before |-> <<>>, stream |-> FALSE, data |-> <<>>]
    /\ conv_calls = 0
    /\ IF s = "Mem" THEN MemInit(SUBSET (1..MaxMemDiskId), 0..MaxMemLimit)
       ELSE MemInit({{}}, {0})
    /\ StoreInit(IF s = "Store"
                 THEN {S \in SUBSET [id : 1..MaxDiskId, tablename : UserTables] :
                          \A a, b \in S : a.id = b.id => a = b}
                 ELSE {{}})

Init == InitOf("Store")

Next ==
    \/ (New) /\ UNCHANGED <<schedVars, normVars, memVars, planVars, parseVars, engineVars>>
    \/ (\E th \in Threads, tbl \in UserTables : CallIngest(th, tbl)) /\ UNCHANGED <<schedVars, normVars, memVars, planVars, parseVars, engineVars>>
    \/ (\E th \in Threads, tbl \in UserTables, k \in 1..MaxColLen : CallIngestHomogeneous(th, tbl, k)) /\ UNCHANGED <<schedVars, normVars, memVars, planVars, parseVars, engineVars>>
    \/ (\E th \in Threads, tbl \in UserTables, k \in 1..MaxColLen : CallIngestHeterogeneous(th, tbl, k)) /\ UNCHANGED <<schedVars, normVars, memVars, planVars, parseVars, engineVars>>
    \/ (\E th \in Threads, tbl \in UserTables : CallStorePartition(th, tbl)) /\ UNCHANGED <<schedVars, normVars, memVars, planVars, parseVars, engineVars>>
    \/ (\E th \in Threads, tbl \in UserTables : CallSnapshot(th, tbl)) /\ UNCHANGED <<schedVars, normVars, memVars, planVars, parseVars, engineVars>>
    \/ (\E th \in Threads : CreateIfEmptyCheck(th)) /\ UNCHANGED <<schedVars, normVars, memVars, planVars, parseVars, engineVars>>
    \/ (\E th \in Threads : CreateIfEmptyInsert(th)) /\ UNCHANGED <<schedVars, normVars, memVars, planVars, parseVars, engineVars>>
    \/ (\E th \in Threads : TableIngest(th)) /\ UNCHANGED <<schedVars, normVars, memVars, planVars, parseVars, engineVars>>
    \/ (\E th \in Threads : TableIngestHeterogeneous(th)) /\ UNCHANGED <<schedVars, normVars, memVars, planVars, parseVars, engineVars>>
    \/ (\E th \in Threads : TableIngestHomogeneous(th)) /\ UNCHANGED <<schedVars, normVars, memVars, planVars, parseVars, engineVars>>
    \/ (\E th \in Threads : Batch(th)) /\ UNCHANGED <<schedVars, normVars, memVars, planVars, parseVars, engineVars>>
    \/ (\E th \in Threads : StoreAlloc(th)) /\ UNCHANGED <<schedVars, normVars, memVars, planVars, parseVars, engineVars>>
    \/ (\E th \in Threads : LoadPartition(th)) /\ UNCHANGED <<schedVars, normVars, memVars, planVars, parseVars, engineVars>>
    \/ (\E th \in Threads : SnapshotRead(th)) /\ UNCHANGED <<schedVars, normVars, memVars, planVars, parseVars, engineVars>>
    \/ (\E th \in Threads : SnapshotBuffer(th)) /\ UNCHANGED <<schedVars, normVars, memVars, planVars, parseVars, engineVars>>

Spec == Init /\ [][Next]_vars

\* worker threads are scheduled by the operating system: a worker that can
\* take a step eventually takes it
SpecSched ==
    /\ InitOf("Sched")
    /\ [][
        \/ (\E n \in 1..MaxChunks : Schedule(TRUE, n)) /\ UNCHANGED <<storeVars, normVars, memVars, planVars, parseVars, engineVars>>
        \/ (Schedule(FALSE, 1)) /\ UNCHANGED <<storeVars, normVars, memVars, planVars, parseVars, engineVars>>
        \/ (Stop) /\ UNCHANGED <<storeVars, normVars, memVars, planVars, parseVars, engineVars>>
        \/ (DropPendingTasks) /\ UNCHANGED <<storeVars, normVars, memVars, planVars, parseVars, engineVars>>
        \/ (\E w \in Workers : WorkerLoop(w)) /\ UNCHANGED <<storeVars, normVars, memVars, planVars, parseVars, engineVars>>
        \/ (\E w \in Workers : AwaitTask(w)) /\ UNCHANGED <<storeVars, normVars, memVars, planVars, parseVars, engineVars>>
        \/ (\E w \in Workers : TestRunning(w)) /\ UNCHANGED <<storeVars, normVars, memVars, planVars, parseVars, engineVars>>
        \/ (\E w \in Workers : Wait(w)) /\ UNCHANGED <<storeVars, normVars, memVars, planVars, parseVars, engineVars>>
        \/ (\E w \in Workers : Execute(w)) /\ UNCHANGED <<storeVars, normVars, memVars, planVars, parseVars, engineVars>>
        \/ (\E w \in Workers : SpuriousWakeup(w)) /\ UNCHANGED <<storeVars, normVars, memVars, planVars, parseVars, engineVars>>
       ]_vars
    /\ \A w \in Workers : WF_vars((WorkerLoop(w) \/ AwaitTask(w) \/ TestRunning(w) \/ Wait(w) \/ Execute(w))
                    /\ UNCHANGED <<storeVars, normVars, memVars, planVars, parseVars, engineVars>>)

\* the scheduler again, with the tasks handed out after stop counted
SpecStop ==
    /\ InitOf("Stop")
    /\ [][
        \/ (\E n \in 1..MaxChunks : Schedule(TRUE, n)) /\ UNCHANGED <<storeVars, normVars, memVars, planVars, parseVars, engineVars>>
        \/ (Schedule(FALSE, 1)) /\ UNCHANGED <<storeVars, normVars, memVars, planVars, parseVars, engineVars>>
        \/ (Stop) /\ UNCHANGED <<storeVars, normVars, memVars, planVars, parseVars, engineVars>>
        \/ (DropPendingTasks) /\ UNCHANGED <<storeVars, normVars, memVars, planVars, parseVars, engineVars>>
        \/ (\E w \in Workers : WorkerLoop(w)) /\ UNCHANGED <<storeVars, normVars, memVars, planVars, parseVars, engineVars>>
        \/ (\E w \in Workers : AwaitTask(w)) /\ UNCHANGED <<storeVars, normVars, memVars, planVars, parseVars, engineVars>>
        \/ (\E w \in Workers : TestRunning(w)) /\ UNCHANGED <<storeVars, normVars, memVars, planVars, parseVars, engineVars>>
        \/ (\E w \in Workers : Wait(w)) /\ UNCHANGED <<storeVars, normVars, memVars, planVars, parseVars, engineVars>>
        \/ (\E w \in Workers : Execute(w)) /\ UNCHANGED <<storeVars, normVars, memVars, planVars, parseVars, engineVars>>
        \/ (\E w \in Workers : SpuriousWakeup(w)) /\ UNCHANGED <<storeVars, normVars, memVars, planVars, parseVars, engineVars>>
       ]_vars

SpecNorm ==
    InitOf("Norm") /\ [][Normalize /\ UNCHANGED <<storeVars, schedVars, memVars, planVars, parseVars, engineVars>>]_vars

\* the enforcer is a thread of its own: when it can take a step it
\* eventually takes it
SpecMem ==
    /\ InitOf("Mem")
    /\ [][
        \/ (\E tbl \in MemTables : MemIngest(tbl)) /\ UNCHANGED <<storeVars, schedVars, normVars, planVars, parseVars, engineVars>>
        \/ (\E tbl \in MemTables, b \in 1..MaxColBytes : MemStorePartition(tbl, b)) /\ UNCHANGED <<storeVars, schedVars, normVars, planVars, parseVars, engineVars>>
        \/ (\E pid \in 0..(MaxMemDiskId + MaxMemOps), done \in SUBSET MemTables : MemRestore(pid, done)) /\ UNCHANGED <<storeVars, schedVars, normVars, planVars, parseVars, engineVars>>
        \/ (EnforcerWake) /\ UNCHANGED <<storeVars, schedVars, normVars, planVars, parseVars, engineVars>>
        \/ (\E tbl \in MemTables : EnforcerMeasure(tbl)) /\ UNCHANGED <<storeVars, schedVars, normVars, planVars, parseVars, engineVars>>
        \/ (EnforcerLoop) /\ UNCHANGED <<storeVars, schedVars, normVars, planVars, parseVars, engineVars>>
        \/ (\E tbl \in MemTables, checked \in BOOLEAN : EnforcerEvict(tbl, checked)) /\ UNCHANGED <<storeVars, schedVars, normVars, planVars, parseVars, engineVars>>
       ]_vars
    /\ WF_vars((\/ EnforcerWake
                 \/ (\E tbl \in MemTables : EnforcerMeasure(tbl))
                 \/ EnforcerLoop
                 \/ (\E tbl \in MemTables, checked \in BOOLEAN : EnforcerEvict(tbl, checked)))
                /\ UNCHANGED <<storeVars, schedVars, normVars, planVars, parseVars, engineVars>>)

SpecAgg ==
    InitOf("Agg") /\ [][RunAggregate /\ UNCHANGED <<storeVars, schedVars, normVars, memVars, parseVars, engineVars>>]_vars

SpecRun ==
    InitOf("Run") /\ [][Run /\ UNCHANGED <<storeVars, schedVars, normVars, memVars, parseVars, engineVars>>]_vars

SpecSort ==
    /\ InitOf("Sort")
    /\ [][
        \/ (SortPlan) /\ UNCHANGED <<storeVars, schedVars, normVars, memVars, parseVars, engineVars>>
        \/ (SortStep) /\ UNCHANGED <<storeVars, schedVars, normVars, memVars, parseVars, engineVars>>
       ]_vars

SpecParse ==
    InitOf("Parse") /\ [][ParseQuery /\ UNCHANGED <<storeVars, schedVars, normVars, memVars, planVars, engineVars>>]_vars

\* the macro is expanded once, and the code it generated is run on buffers
\* of any tags
SpecReify ==
    /\ InitOf("Reify")
    /\ [][
        \/ (ReifyTypes) /\ UNCHANGED <<storeVars, schedVars, normVars, memVars, planVars, parseVars>>
        \/ (\E tags \in [{"a", "b", "c", "d"} -> {"ScalarI64", "ScalarStr"}] : Dispatch(tags)) /\ UNCHANGED <<storeVars, schedVars, normVars, memVars, planVars, parseVars>>
       ]_vars

\* init leaves an empty output buffer; the operator is then executed on the
\* chunks its input operator produces
SpecConv ==
    /\ InitOf("Conv")
    /\ [][
        \/ (\E chunk \in UNION {[1..n -> {0, 1, 255, 257}] : n \in 0..MaxChunkLen} : ConvInput(chunk)) /\ UNCHANGED <<storeVars, schedVars, normVars, memVars, planVars, parseVars>>
        \/ (\E stream \in BOOLEAN : ConvExecute(stream)) /\ UNCHANGED <<storeVars, schedVars, normVars, memVars, planVars, parseVars>>
       ]_vars
(***************************************************************************)
(* Properties of the table store                                           *)
(***************************************************************************)
IngestOps == {"ingest", "ingest_homogeneous", "ingest_heterogeneous"}

\* how often the row with id r occurs in the partitions of a snapshot
Occurrences(r, snap) ==
    Cardinality({pi \in {<<p, i>> : p \in snap, i \in 1..MaxRows + MaxCalls + 2} :
                    pi[2] <= Len(pi[1].rows) /\ pi[1].rows[pi[2]].id = r})

\* C1: partition ids stay unique: no seal and no store_partition inserts
\* under the id of a partition that is already in the table, so every such
\* insert makes the partition map one entry larger.
C1_NoInsertUnderExistingId ==
    \A th \in Threads :
        (ret[th].sealed \/ ret[th].op = "store_partition")
            => ret[th].after = ret[th].before + 1

\* C2: every partition id held by a table is strictly less than the
\* coordinator's next_partition_id.
C2_IdsBelowNextPartitionId ==
    started => \A n \in tables : \A p \in partitions[n] : p.id < next_partition_id

\* C3: when ingest, ingest_heterogeneous or ingest_homogeneous returns, the
\* buffer holds fewer than batch_size rows.
C3_BufferBelowBatchSizeAfterIngest ==
    \A th \in Threads :
        ret[th].op \in IngestOps => ret[th].buflen < batch_size(ret[th].table)

\* C4: an ingest call that finds the buffer at batch_size rows or more leaves
\* it below batch_size and adds exactly one partition, whose id is the
\* previous number of partitions; a table filled through ingest alone holds
\* the ids 0, 1, 2, ...
C4_SealOnNextIngest ==
    /\ \A th \in Threads :
          (ret[th].op \in IngestOps /\ ret[th].prelen >= batch_size(ret[th].table))
             => /\ ret[th].buflen < batch_size(ret[th].table)
                /\ ret[th].sealed
                /\ ret[th].after = ret[th].before + 1
                /\ ret[th].newid = ret[th].before
    /\ \A n \in tables :
          onlyIngest[n] => PartitionIds(partitions[n]) = 0..(Cardinality(partitions[n]) - 1)

\* C5: a returned snapshot holds every row whose ingest had returned before
\* the snapshot started exactly once, in a sealed partition or in the
\* transient one, and the transient partition is there iff the buffer held
\* rows.
C5_SnapshotHoldsEachRowOnce ==
    \A th \in Threads :
        ret[th].op = "snapshot"
            => /\ \A r \in ret[th].seen : Occurrences(r, ret[th].snap) = 1
               /\ (\E p \in ret[th].snap : p.id = TransientId) <=> ret[th].buflen > 0

\* C6: a snapshot and a sealing ingest on one table never wait on each other:
\* no state has the snapshot holding the partitions read lock and waiting for
\* the buffer mutex while the ingest holds that mutex and waits for the
\* partitions write lock.
C6_SnapshotAndIngestNeverBlockEachOther ==
    ~ \E s, w \in Threads :
        /\ pc[s] = "snap_buf"
        /\ pc[w] = "batch"
        /\ Top(s).table = Top(w).table
        /\ bufOwner[Top(w).table] = w
        /\ s \in partReaders[Top(s).table]


\* the records of _meta_tables, sealed or buffered, that name table n
MetaRecords(n) ==
    {r \in UNION {RowIds(p.rows) : p \in partitions[MetaTables]}
              \cup RowIds(buffer[MetaTables]) :
        \E p \in partitions[MetaTables] \cup {Partition(TransientId, "buffer", buffer[MetaTables])} :
            \E i \in 1..Len(p.rows) : p.rows[i].id = r /\ p.rows[i].name = n}

\* C12: once the calls that created a table in the coordinator have returned,
\* _meta_tables holds exactly one record naming that table, under any
\* interleaving of the calls; _meta_tables seals every record at once (batch
\* size 1, an empty buffer when no call is running) and _meta_queries has
\* batch size 10 whatever size is configured.
C12_OneMetaRecordPerCreatedTable ==
    /\ (\A th \in Threads : pc[th] = "idle") =>
          /\ \A n \in created : Cardinality(MetaRecords(n)) = 1
          /\ buffer[MetaTables] = <<>>
    /\ \A b \in 1..(BatchSize + MetaQueriesBatch) :
          /\ batch_size_override(b, "_meta_tables") = 1
          /\ batch_size_override(b, "_meta_queries") = 10

\* C26: the Table registered under a name is never replaced once it holds a
\* row: the step of create_if_empty that inserts a Table under a name leaves
\* in the table every row whose ingest has returned (they sit in the buffer
\* or in a sealed partition) and every partition store_partition has loaded,
\* under any interleaving of first calls on the name.
C26_ReturnedRowsStayInTable ==
    [][\A th \in Threads :
          (pc[th] = "create_insert" /\ pc'[th] # "create_insert") =>
              LET n == Top(th).table
                  RowsIn(buf, parts) ==
                      RowIds(buf) \cup UNION {RowIds(p.rows) : p \in parts}
              IN /\ (ingested[n] \cap RowsIn(buffer[n], partitions[n]))
                        \subseteq RowsIn(buffer'[n], partitions'[n])
                 /\ partitions[n] \subseteq partitions'[n]
      ]_vars
(***************************************************************************)
(* Properties of the task scheduler                                        *)
(***************************************************************************)
\* C7: while running stays true and drop_pending_tasks is not called, every
\* task passed to schedule() is eventually handed to a worker and executed.
C7_ScheduledTaskEventuallyExecuted ==
    \A t \in TaskIds :
        ([]running /\ []~dropped)
            => ((scheduled >= t) ~> (handed[t] > 0 /\ executed[t] > 0))

\* every task was scheduled and has run to completion with the pool still
\* running, and the workers are back in wait
C7_Witness ==
    /\ running
    /\ ~dropped
    /\ scheduled = MaxTasks
    /\ \A t \in TaskIds : executed[t] > 0 /\ completed[t]
    /\ idle_queue = Workers

\* C8: after stop() every worker eventually leaves worker_loop.
C8_WorkersExitAfterStop ==
    (~running) ~> (\A w \in Workers : wpc[w] = "exited")

\* stop() has been called and every worker has left worker_loop
C8_Witness ==
    /\ ~running
    /\ \A w \in Workers : wpc[w] = "exited"
    /\ task_queue # <<>>


\* task t is in the queue
Queued(t) == \E i \in 1..Len(task_queue) : task_queue[i] = t

\* worker w returns from await_task with task t in this step
Takes(w, t) == cur[w] = NoTask /\ cur'[w] = t

\* C16: a task that is not multithreaded is handed to at most one worker
\* and executed at most once, and is out of the queue once it is handed;
\* no worker is handed a task that reports completed() when it is popped,
\* and the completed tasks popped on the way leave the queue unhanded.
C16_SingleThreadedTaskHandedOnce ==
    /\ [](\A t \in TaskIds : ~multithreaded[t] =>
            /\ handed[t] <= 1
            /\ executed[t] <= 1
            /\ handed[t] = 1 => ~Queued(t))
    /\ [][\A t \in TaskIds :
            /\ (\E w \in Workers : Takes(w, t)) =>
                  /\ ~completed[t]
                  /\ ~multithreaded[t] => handed[t] = 0 /\ ~Queued(t)'
            /\ (Queued(t) /\ completed[t] /\ (\E w \in Workers : wpc'[w] # wpc[w]
                                                  /\ wpc[w] = "await_task")) =>
                  /\ handed'[t] = handed[t]
                  /\ ~Queued(t)'
                  /\ ~\E w \in Workers : Takes(w, t)]_vars

\* a completed multithreaded task was discarded from the front of the queue
\* and the task behind it was handed to one worker, which has executed it
C16_Witness ==
    /\ ~dropped
    /\ multithreaded[1] /\ completed[1] /\ handed[1] = 1
    /\ ~multithreaded[2] /\ handed[2] = 1 /\ executed[2] = 1
    /\ task_queue = <<>>

\* C17: a worker is never handed a task while a task scheduled before it
\* that has not reported completed() is in the queue; a multithreaded
\* task that is handed out stays at the front of the queue; and a worker
\* that takes a task and leaves the queue non-empty wakes exactly one of
\* the workers blocked in wait, if there is one.
C17_HandedInScheduleOrder ==
    [][\A w \in Workers, t \in TaskIds :
          Takes(w, t) =>
            /\ \A u \in TaskIds : (u < t /\ Queued(u)) => completed[u]
            /\ multithreaded[t] => (task_queue' # <<>> /\ Head(task_queue') = t)
            /\ (task_queue' # <<>> /\ idle_queue # {}) =>
                  /\ idle_queue' \subseteq idle_queue
                  /\ Cardinality(idle_queue \ idle_queue') = 1]_vars

\* a worker took the multithreaded task at the front while the other was
\* blocked in wait, and has woken it: both hold the task now
C17_Witness ==
    /\ multithreaded[1]
    /\ handed[1] = 2
    /\ \A w \in Workers : cur[w] = 1
    /\ task_queue # <<>> /\ Head(task_queue) = 1

\* C30: once stop has stored running = false, await_task returns at most one
\* more task to each worker; a worker that has seen running = false in
\* worker_loop has left the loop and takes no task; and once every worker
\* has left, the tasks in the queue stay there, none handed out or executed.
C30_AtMostOneTaskAfterStop ==
    /\ [](\A w \in Workers : late[w] <= 1)
    /\ [][/\ ~running => ~running'
          /\ \A w \in Workers :
                wpc[w] = "exited" =>
                    /\ wpc'[w] = "exited"
                    /\ \A t \in TaskIds : ~Takes(w, t)
          /\ (\A w \in Workers : wpc[w] = "exited") =>
                /\ handed' = handed /\ executed' = executed
                /\ \A t \in TaskIds : Queued(t) /\ ~dropped' => Queued(t)'
         ]_vars

\* a worker was handed a task after stop and has run it, every worker has
\* left worker_loop, and a task that is not completed is still queued
C30_Witness ==
    /\ ~running
    /\ \A w \in Workers : wpc[w] = "exited"
    /\ \E w \in Workers : late[w] = 1
    /\ \E t \in TaskIds : Queued(t) /\ ~completed[t] /\ executed[t] = 0

(***************************************************************************)
(* Properties of table memory and the memory enforcer                      *)
(***************************************************************************)
\* C13 as stated: after lru.evict() has returned a key and the tables have
\* dropped that column, no step makes the total heap_size_of_children() of
\* the tables larger until a column is restored.
C13_HeapDoesNotGrowUntilRestore ==
    [][(evicted /\ evicted') => TotalHeap' <= TotalHeap]_vars

\* C13, amended: after lru.evict() has returned a key and the tables have
\* dropped that column, the total heap_size_of_children() of the tables does
\* not grow until a column is restored, a row is ingested or a partition is
\* stored: no step of the enforcer makes it larger.
C13_HeapGrowsOnlyByClientOperation ==
    [][(evicted /\ evicted' /\ memops' = memops) => TotalHeap' <= TotalHeap]_vars

\* a resident column has been evicted from a table, the enforcer is through
\* with the key and no column has been restored since
C13_Witness ==
    /\ evicted
    /\ epc = "loop"
    /\ victim # NoVictim
    /\ \E n \in MemTables : \E p \in mem_partitions[n] :
          ColumnKey(p.id) = victim /\ ~p.resident /\ p.bytes > 1

\* C18: each pass of the memory enforcer terminates; it leaves the eviction
\* loop only when the tracked usage is no longer above mem_size_limit_tables
\* or lru.evict() has returned None; while the usage is above the limit and
\* the LRU holds a key, its next step is lru.evict(), after which it asks
\* every table to drop the evicted column.
C18_EnforcerEvictsUntilBelowLimitOrLruEmpty ==
    /\ [][(epc \in {"loop", "evicting"} /\ epc' \notin {"loop", "evicting"})
            => /\ epc = "loop" /\ epc' = "sleep"
               /\ mem_usage_bytes <= mem_size_limit_tables \/ lru = <<>>]_vars
    /\ [][(epc = "loop" /\ epc' # "loop"
             /\ mem_usage_bytes > mem_size_limit_tables /\ lru # <<>>)
            => epc' = "evicting" /\ victim' = Head(lru) /\ todo' = MemTables]_vars
    /\ [][(epc = "evicting" /\ epc' # "evicting") => todo' = {}]_vars
    /\ (epc = "measure") ~> (epc = "sleep")

\* C27: the enforcer's usage estimate never goes below zero: no t.evict
\* frees more bytes than the estimate holds, so the subtraction neither
\* panics nor wraps, whatever ingest, seal, store and restore do meanwhile.
C27_UsageNeverUnderflows ==
    [][epc = "evicting" =>
          /\ epc' # "panicked"
          /\ mem_usage_bytes' <= mem_usage_bytes]_vars

\* C28: the key lru.evict() returns makes the tables drop the resident
\* storage of one column only: while the enforcer is on one victim, no two
\* columns, of one table or of two, have been dropped for it.
C28_EvictDropsOneColumn ==
    Cardinality(mem_obs) <= 1

\* C29: a restore call on an id that some table holds a partition for
\* returns, whether or not the other tables hold the id, and has changed the
\* tables that hold it and no other.
C29_RestoreReturns ==
    [][\A pid \in 0..(MaxMemDiskId + MaxMemOps), done \in SUBSET MemTables :
          MemRestore(pid, done) =>
              /\ ~RestorePanics(pid)
              /\ \A n \in MemTables :
                    mem_partitions'[n] =
                        {IF p.id = pid THEN [p EXCEPT !.resident = TRUE] ELSE p :
                            p \in mem_partitions[n]}]_vars
(***************************************************************************)
(* Properties of Query::normalize                                          *)
(***************************************************************************)
RECURSIVE HasAggregate(_)
HasAggregate(expr) ==
    \/ expr.kind = "Aggregate"
    \/ \E i \in 1..Len(expr.args) : HasAggregate(expr.args[i])

\* the queries normalize returned
Returned == result.primary \o result.post

\* every expression of a normal form query
ExprsOf(nfq) ==
    {nfq.projection[i].expr : i \in 1..Len(nfq.projection)}
        \cup {nfq.filter}
        \cup {nfq.aggregate[i].info.expr : i \in 1..Len(nfq.aggregate)}
        \cup {nfq.order_by[i].expr : i \in 1..Len(nfq.order_by)}

\* C9: when normalize succeeds, no expression of a returned query (projection,
\* filter, aggregate arguments, order_by) contains an Aggregate node.
C9_NoAggregateInNormalForm ==
    (normalized /\ result.ok)
        => \A i \in 1..Len(Returned) : \A e \in ExprsOf(Returned[i]) : ~HasAggregate(e)

\* C10: in every query normalize returns, a non-empty aggregate list comes
\* with an empty order_by and a non-empty order_by with an empty aggregate list.
C10_AggregateExcludesOrderBy ==
    (normalized /\ result.ok)
        => \A i \in 1..Len(Returned) :
              /\ Returned[i].aggregate # <<>> => Returned[i].order_by = <<>>
              /\ Returned[i].order_by # <<>> => Returned[i].aggregate = <<>>

\* a query with aggregates and an ORDER BY went through normalize, which
\* returned a primary holding the aggregates and a post-pass holding the keys
C10_Witness ==
    /\ normalized
    /\ result.ok
    /\ query.order_by # <<>>
    /\ result.primary[1].aggregate # <<>>
    /\ result.post # <<>>
    /\ result.post[1].order_by # <<>>


\* some select expression holds an aggregate below its root, so that what
\* is left of it after the extraction is not a bare column reference
SelectHasWrappedAggregate ==
    \E i \in 1..Len(query.select) :
        /\ HasAggregate(query.select[i].expr)
        /\ query.select[i].expr.kind # "Aggregate"

\* C11: normalize returns a post-pass query iff the select list holds an
\* aggregate while ORDER BY is non-empty, or some final projection is not a
\* bare column reference. Then the primary has an empty order_by and the limit
\* {u64::MAX, offset 0}, and the post-pass has the filter Const(1), no
\* aggregates, the limit of the query and one order_by entry per ORDER BY key,
\* in the direction of that key. Otherwise the primary carries the order_by and
\* the limit of the query unchanged.
C11_PostPassIffRequired ==
    (normalized /\ result.ok) =>
        /\ result.post # <<>>
              <=> \/ /\ \E i \in 1..Len(query.select) :
                            HasAggregate(query.select[i].expr)
                     /\ query.order_by # <<>>
                  \/ SelectHasWrappedAggregate
        /\ result.post # <<>> =>
              /\ result.primary[1].order_by = <<>>
              /\ result.primary[1].limit = LimitClause(U64Max, 0)
              /\ result.post[1].filter = Const("1")
              /\ result.post[1].aggregate = <<>>
              /\ \A e \in ExprsOf(result.post[1]) : ~HasAggregate(e)
              /\ result.post[1].limit = query.limit
              /\ Len(result.post[1].order_by) = Len(query.order_by)
              /\ \A i \in 1..Len(query.order_by) :
                    result.post[1].order_by[i].desc = query.order_by[i].desc
        /\ result.post = <<>> =>
              /\ result.primary[1].order_by = query.order_by
              /\ result.primary[1].limit = query.limit

\* normalize returned a post-pass for a query with a filter of its own, a
\* wrapped aggregate in the select list and an ORDER BY key
C11_Witness ==
    /\ normalized
    /\ result.ok
    /\ result.post # <<>>
    /\ SelectHasWrappedAggregate
    /\ query.order_by # <<>>
    /\ query.filter # Const("1")

(***************************************************************************)
(* Properties of NormalFormQuery::run_aggregate and NormalFormQuery::run   *)
(***************************************************************************)
\* C14: run_aggregate returns NotImplemented, with nothing executed and no
\* batch result, exactly when neither the grouping key in use nor the raw
\* grouping key is order-preserving and the number of group-by columns is not
\* 1. In every other case it returns a batch: unsorted when the key in use is
\* order-preserving, else with every output column sorted by the encoded key
\* (raw key order-preserving) or by the single decoded group-by column.
C14_NotImplementedIffUnorderedMultiColumn ==
    LET KeyInUseOrderPreserving ==
            IF agg_in.max_grouping_key < GroupingKeyLimit
            THEN agg_in.is_raw_grouping_key_order_preserving
            ELSE agg_in.hashmap
        AggOutputs ==
            {<<"group_by", i>> : i \in 1..agg_in.decode_plans}
                \cup {<<"aggregate", i>> : i \in 1..Len(agg_in.aggregate)}
    IN
    agg_out.result # "none" =>
        /\ agg_out.result = "NotImplemented"
              <=> /\ ~KeyInUseOrderPreserving
                  /\ ~agg_in.is_raw_grouping_key_order_preserving
                  /\ agg_in.decode_plans # 1
        /\ agg_out.result = "NotImplemented" => ~agg_out.executed /\ ~agg_out.batch
        /\ agg_out.result # "NotImplemented" =>
              /\ agg_out.result = "Ok" /\ agg_out.batch
              /\ KeyInUseOrderPreserving =>
                    agg_out.sort_by = "none" /\ agg_out.selected = {}
              /\ (~KeyInUseOrderPreserving /\ agg_in.is_raw_grouping_key_order_preserving) =>
                    agg_out.sort_by = "encoded_group_by_column" /\ agg_out.selected = AggOutputs
              /\ (~KeyInUseOrderPreserving /\ ~agg_in.is_raw_grouping_key_order_preserving) =>
                    agg_out.sort_by = "grouping_columns[0]" /\ agg_out.selected = AggOutputs

\* run_aggregate refused a query with no group-by column whose hash map key
\* and raw key are both not order-preserving
C14_Witness ==
    /\ agg_out.result = "NotImplemented"
    /\ agg_in.decode_plans = 0
    /\ agg_in.max_grouping_key >= GroupingKeyLimit

\* C21: when run_aggregate returns a batch, its aggregation columns stand in
\* the order of the query's aggregate list: the i-th column is the compacted
\* buffer of the i-th aggregate. The selector is the buffer of the last Count
\* on an input that is not nullable, or the exists pass when there is none; a
\* Count on an input that is not nullable is compacted with nonzero_compact,
\* every other aggregate with compact(aggregate, selector).
C21_AggregationColsInAggregateOrder ==
    agg_out.result = "Ok" =>
        LET aggregate == agg_in.aggregate
            IsSelectorCount(i) ==
                aggregate[i].aggregator = "Count" /\ ~aggregate[i].nullable
            Counts == {i \in 1..Len(aggregate) : IsSelectorCount(i)}
            LastCount == CHOOSE i \in Counts : \A j \in Counts : j <= i
        IN /\ agg_out.selector =
                 IF Counts = {} THEN <<"exists">> ELSE <<"aggregate", LastCount>>
           /\ Len(agg_out.aggregation_cols) = Len(aggregate)
           /\ \A i \in 1..Len(aggregate) :
                 LET c == agg_out.aggregation_cols[i].col
                 IN /\ c.aggregate = <<"aggregate", i>>
                    /\ IF IsSelectorCount(i)
                       THEN c.op = "nonzero_compact"
                       ELSE c.op = "compact" /\ c.selector = agg_out.selector

\* run_aggregate returned a batch for two aggregates the first of which, a
\* Count on an input that is not nullable, is the selector
C21_Witness ==
    /\ agg_out.result = "Ok"
    /\ Len(agg_in.aggregate) >= 2
    /\ agg_out.selector = <<"aggregate", 1>>
    /\ agg_out.aggregation_cols[2].col.op = "compact"

\* C19: for two or more ORDER BY keys run plans one sort per key, last key
\* first, each in the direction of its key, the first sort unstable on the
\* plain indices and every later one stable on the previous permutation; the
\* rows then come out ordered by the first key, ties broken by the second key,
\* and so on.
C19_SortsLastKeyFirstThenStable ==
    (sort_plan.planned /\ Len(sort_query.order_by) >= 2) =>
        LET order_by == sort_query.order_by
            n == Len(order_by)
            LexBefore(x, y) ==
                \E k \in 1..n :
                    /\ \A m \in 1..(k - 1) :
                          sort_data[x][order_by[m].expr] = sort_data[y][order_by[m].expr]
                    /\ Before(x, y, order_by[k].expr, order_by[k].desc)
        IN /\ Len(sort_plan.ops) = n
           /\ \A i \in 1..n :
                 /\ sort_plan.ops[i].op = "sort_by"
                 /\ sort_plan.ops[i].key = order_by[n + 1 - i].expr
                 /\ sort_plan.ops[i].desc = order_by[n + 1 - i].desc
                 /\ sort_plan.ops[i].stable = (i > 1)
                 /\ sort_plan.ops[i].input = IF i > 1 THEN "sort_indices" ELSE "indices"
           /\ sort_plan.pos = n =>
                 /\ {sort_indices[i] : i \in 1..Len(sort_indices)} = 1..PartitionRows
                 /\ Len(sort_indices) = PartitionRows
                 /\ \A i, j \in 1..Len(sort_indices) :
                       i < j => ~LexBefore(sort_indices[j], sort_indices[i])

\* two sorts have run for an ORDER BY on two different keys in different
\* directions, on rows some of which tie on the first key and differ on the second
C19_Witness ==
    /\ sort_plan.planned /\ sort_plan.pos = Len(sort_plan.ops)
    /\ Len(sort_query.order_by) = 2
    /\ sort_query.order_by[1].expr # sort_query.order_by[2].expr
    /\ sort_query.order_by[1].desc # sort_query.order_by[2].desc
    /\ \E x, y \in 1..PartitionRows :
          /\ sort_data[x][sort_query.order_by[1].expr] = sort_data[y][sort_query.order_by[1].expr]
          /\ sort_data[x][sort_query.order_by[2].expr] # sort_data[y][sort_query.order_by[2].expr]
    /\ \E x, y \in 1..PartitionRows :
          sort_data[x][sort_query.order_by[1].expr] # sort_data[y][sort_query.order_by[1].expr]

\* C20: run plans the top-N operator, bounded to limit rows, iff limit <
\* partition_len / 2 and the query has exactly one ORDER BY key, limit being
\* limit + offset of the query; in every other case with an ORDER BY it plans
\* a full sort of the indices. After sorting the filter is Filter::Indices,
\* built from the U8 or NullableU8 mask there was, and the arm marked
\* unreachable is not reached.
C20_TopNIffSmallLimitAndOneKey ==
    run_out.status = "Ok" =>
        LET small == LessUsize(run_out.limit, run_in.partition_len \div 2)
            topn == \E i \in 1..Len(run_out.ops) : run_out.ops[i].op = "top_n"
        IN /\ topn <=> (small /\ Len(run_in.order_by) = 1)
           /\ topn => run_out.ops = <<SortOp("top_n", run_in.order_by[1].expr,
                                            run_out.limit, "ranking",
                                            run_in.order_by[1].desc, FALSE)>>
           /\ (run_in.order_by # <<>> /\ ~topn) =>
                 /\ Len(run_out.ops) = Len(run_in.order_by)
                 /\ \A i \in 1..Len(run_out.ops) : run_out.ops[i].op = "sort_by"
                 /\ run_out.ops[1].input = "indices"
           /\ run_in.order_by # <<>> =>
                 /\ run_out.filter.kind = "Indices"
                 /\ run_out.filter.mask =
                       IF run_in.filter_tag \in {"U8", "NullableU8"}
                       THEN run_in.filter_tag ELSE "none"
           /\ run_in.order_by = <<>> => run_out.ops = <<>>
           /\ run_out.filter.kind # "unreachable"

\* run planned top-N for a one-key query with a U8 filter and a limit below
\* half the partition, offset included
C20_Witness ==
    /\ run_out.status = "Ok"
    /\ Len(run_in.order_by) = 1
    /\ run_in.limit.offset = 1
    /\ run_in.filter_tag = "U8"
    /\ run_out.ops # <<>>
    /\ run_out.ops[1].op = "top_n"
    /\ run_out.filter.kind = "Indices"
(***************************************************************************)
(* Properties of parse_query                                               *)
(***************************************************************************)
\* C15: every query parse_query returns for a text without a LIMIT clause
\* has limit 100 and offset 0, every query it returns for a text without
\* a WHERE clause has the filter Const(Int(1)), a projection that is the
\* wildcard gives the select list [ColName("*")], and a projected
\* to_year(x) gives Func1(ToYear, x) for the expression x parses to
C15_ParseDefaults ==
    parse_out.status = "Ok" =>
        /\ parse_in.limit = None => parse_out.query.limit = LimitClause(100, 0)
        /\ parse_in.selection = None => parse_out.query.filter = Const("Int(1)")
        /\ parse_in.projection = <<SQLWildcard>> =>
              parse_out.query.select = <<ColName("*")>>
        /\ \A x \in ExprNodes :
              parse_in.projection = <<SQLFunction("to_year", <<x>>)>> =>
                  parse_out.query.select = <<Func1("ToYear", ParseExpr(x).val)>>

C15_Witness ==
    /\ parse_out.status = "Ok"
    /\ parse_in.limit = None
    /\ parse_in.selection = None
    /\ parse_in.projection = <<SQLFunction("to_year", <<SQLIdentifier("ts")>>)>>
    /\ parse_out.query.select = <<Func1("ToYear", ColName("ts"))>>
    /\ parse_out.query.limit.limit = 100

(***************************************************************************)
(* Properties of the reify_types! macro                                    *)
(***************************************************************************)
\* C22: whenever two productions of the invocation differ in their sequence
\* of variable groups (in the number of declarations, or in the names or
\* their order in the declaration at some position), whichever comes first,
\* the macro reports an error and returns no code.
C22_GroupMismatchIsBuildError ==
    LET Groups(p) == [k \in 1..Len(p.specs) |-> p.specs[k].variables]
    IN (/\ reify_out.emitted # "none"
        /\ \E i, j \in 1..Len(reify_in) : Groups(reify_in[i]) # Groups(reify_in[j]))
          => /\ reify_out.emitted = "error"
             /\ reify_out.arms = <<>>

\* C23: in the code the macro generates, every production has exactly one
\* arm for each tuple of the cross product of its declarations' type classes,
\* every such arm is reachable (no earlier arm has its pattern) and runs the
\* body of its production, and a run reaches the fallback arm exactly when
\* the tuple of runtime tags lies in no production's cross product.
C23_OneReachableArmPerTuple ==
    LET arms == reify_out.arms
        Domains(p) == [k \in 1..Len(p.specs) |-> types(p.specs[k].t)]
        InCross(value, p) ==
            /\ Len(value) = Len(p.specs)
            /\ \A k \in 1..Len(value) :
                  \E m \in 1..Len(Domains(p)[k]) : Domains(p)[k][m] = value[k]
        Tuples(p) == {v \in [1..Len(p.specs) -> {"ScalarI64", "ScalarStr"}] : InCross(v, p)}
        ArmsOf(p) == {k \in 1..Len(arms) : ~arms[k].binding /\ arms[k].expr = p.expr}
        Matched == [i \in 1..Len(reify_out.match_expr) |->
                       reify_run.tags[reify_out.match_expr[i]]]
    IN (/\ reify_out.emitted = "code"
        /\ \A k \in 1..Len(arms) :
              arms[k].binding \/ Len(arms[k].pattern) = Len(reify_out.match_expr))
          => /\ \A n \in 1..Len(reify_in) :
                   /\ {arms[k].pattern : k \in ArmsOf(reify_in[n])} = Tuples(reify_in[n])
                   /\ Cardinality(ArmsOf(reify_in[n])) = Cardinality(Tuples(reify_in[n]))
                   /\ \A k \in ArmsOf(reify_in[n]) :
                         \A j \in 1..(k - 1) :
                            arms[j].binding \/ arms[j].pattern # arms[k].pattern
             /\ reify_run.kind = "body" =>
                   /\ arms[reify_run.arm].pattern = Matched
                   /\ reify_run.expr = arms[reify_run.arm].expr
             /\ reify_run.kind \in {"body", "not supported for type"} =>
                   (reify_run.kind = "not supported for type"
                       <=> \A n \in 1..Len(reify_in) : ~InCross(Matched, reify_in[n]))

\* C24: the generated code holds, for every declaration, a check of the tag
\* of its first variable against the tag of each of its other variables; a
\* run on buffers for which such a pair differs returns the fatal error that
\* names both variables and both tags, before any arm is matched, so that no
\* production body runs with two variables of one declaration holding
\* different tags.
C24_SameTagWithinDeclaration ==
    LET eqs == reify_out.type_equalities
        Pairs == UNION {UNION {{<<reify_in[n].specs[k].variables[1],
                                  reify_in[n].specs[k].variables[m]>> :
                                    m \in 2..Len(reify_in[n].specs[k].variables)} :
                                 k \in 1..Len(reify_in[n].specs)} :
                          n \in 1..Len(reify_in)}
        Differ == {p \in Pairs : reify_run.tags[p[1]] # reify_run.tags[p[2]]}
    IN /\ reify_out.emitted = "code" => Pairs = {eqs[k] : k \in 1..Len(eqs)}
       /\ reify_run.kind # "none" =>
             /\ Differ # {} <=> reify_run.kind = "Expected identical types"
             /\ reify_run.kind = "Expected identical types" =>
                   /\ <<reify_run.expr[1], reify_run.expr[3]>> \in Differ
                   /\ reify_run.expr[2] = reify_run.tags[reify_run.expr[1]]
                   /\ reify_run.expr[4] = reify_run.tags[reify_run.expr[3]]
             /\ reify_run.kind = "body" =>
                   \A n \in 1..Len(reify_in) : \A k \in 1..Len(reify_in[n].specs) :
                      \A i, j \in 1..Len(reify_in[n].specs[k].variables) :
                         reify_run.tags[reify_in[n].specs[k].variables[i]]
                            = reify_run.tags[reify_in[n].specs[k].variables[j]]

\* the code generated for two declarations was run on buffers whose tags fit
\* an arm but differ between the two variables of the first declaration
C24_Witness ==
    /\ reify_run.kind = "Expected identical types"
    /\ Len(reify_out.match_expr) = 2
    /\ reify_run.expr = <<"a", "ScalarI64", "b", "ScalarStr">>
    /\ \E k \in 1..Len(reify_out.arms) :
          /\ ~reify_out.arms[k].binding
          /\ reify_out.arms[k].pattern[1] = "ScalarI64"

(***************************************************************************)
(* Properties of TypeConversionOperator                                    *)
(***************************************************************************)
\* C25 as stated: execute with stream = true leaves in the output exactly
\* the casts of the input chunk, in input order; with stream = false it
\* appends them to the output; in both cases the input is unchanged and the
\* output is longer than before by exactly the length of the input.
C25_OutputGrowsByInputLength ==
    [][conv_calls' # conv_calls =>
         LET casts == [i \in 1..Len(conv_input.data) |-> conv_input.data[i] % 256]
         IN /\ conv_input'.data = conv_input.data
            /\ conv_output'.data = IF conv_output'.stream THEN casts
                                   ELSE conv_output.data \o casts
            /\ Len(conv_output'.data) = Len(conv_output.data) + Len(conv_input.data)
      ]_vars

\* C25, amended: execute with stream = true leaves in the output exactly the
\* casts of the input chunk, in input order, so that the output is as long as
\* the input whatever it held before; with stream = false it appends them,
\* and the output is longer than before by exactly the length of the input.
\* In both cases the input is unchanged and one cast is pushed per element.
C25_StreamReplacesElseAppends ==
    [][conv_calls' # conv_calls =>
         LET casts == [i \in 1..Len(conv_input.data) |-> conv_input.data[i] % 256]
         IN /\ conv_input'.data = conv_input.data
            /\ conv_output'.before = conv_output.data
            /\ conv_output'.data = IF conv_output'.stream THEN casts
                                   ELSE conv_output.data \o casts
            /\ Len(conv_output'.data) =
                  IF conv_output'.stream THEN Len(conv_input.data)
                  ELSE Len(conv_output.data) + Len(conv_input.data)
      ]_vars

\* a streaming execute has replaced the casts of an earlier chunk by those
\* of a chunk holding a value that does not fit a u8
C25_Witness ==
    /\ conv_input.executed
    /\ conv_output.stream
    /\ conv_output.before # <<>>
    /\ conv_input.data # <<>>
    /\ conv_output.data # conv_output.before
    /\ \E i \in 1..Len(conv_input.data) : conv_input.data[i] = 257

============================================================================
